---- MODULE Spec2Model ----
(***************************************************************************)
(* A model of the svc-indexer indexing and export pipeline: the directory  *)
(* walker (FileSystemService), the path filter, the File and Folder        *)
(* models, IndexingService.indexProject, AIService and the ExportService   *)
(* renderers, as driven by ExportController.                               *)
(*                                                                         *)
(* Strings (paths, names, patterns) are sequences of one-character         *)
(* strings, so that substring search, glob matching and path arithmetic    *)
(* are computed the way the JavaScript code computes them.                 *)
(***************************************************************************)
EXTENDS Integers, Sequences, FiniteSets, TLC

(***************************************************************************)
(* String helpers                                                          *)
(***************************************************************************)

\* String.prototype.toLowerCase on one character
UpperCase == << "A", "B", "C", "D", "E", "F", "G", "H", "I", "J", "K", "L", "M",
               "N", "O", "P", "Q", "R", "S", "T", "U", "V", "W", "X", "Y", "Z" >>
LowerCase == << "a", "b", "c", "d", "e", "f", "g", "h", "i", "j", "k", "l", "m",
               "n", "o", "p", "q", "r", "s", "t", "u", "v", "w", "x", "y", "z" >>

\* the lower-case letter of every upper-case letter
LowerOf ==
    [c \in {UpperCase[i] : i \in 1..Len(UpperCase)} |->
        LowerCase[CHOOSE i \in 1..Len(UpperCase) : UpperCase[i] = c]]

LowerChar(c) == IF c \in DOMAIN LowerOf THEN LowerOf[c] ELSE c

ToLower(s) == [i \in 1..Len(s) |-> LowerChar(s[i])]

\* s.startsWith(p)
StartsWith(s, p) == Len(p) <= Len(s) /\ SubSeq(s, 1, Len(p)) = p

\* s.includes(sub): case-sensitive substring search
Includes(s, sub) ==
    \E i \in 0..(Len(s) - Len(sub)) : SubSeq(s, i + 1, i + Len(sub)) = sub

\* s.substring(n): the characters after the first n
Drop(s, n) == SubSeq(s, n + 1, Len(s))

\* positions of character c in s
Positions(s, c) == {i \in 1..Len(s) : s[i] = c}

SetMax(S) == CHOOSE x \in S : \A y \in S : y <= x
SetMin(S) == CHOOSE x \in S : \A y \in S : x <= y

\* s.split(c): the pieces of s between occurrences of the character c
RECURSIVE SplitOn(_, _)
SplitOn(s, c) ==
    IF Positions(s, c) = {} THEN <<s>>
    ELSE LET i == SetMin(Positions(s, c))
         IN <<SubSeq(s, 1, i - 1)>> \o SplitOn(Drop(s, i), c)

\* parts.join(c)
RECURSIVE JoinWith(_, _)
JoinWith(parts, c) ==
    IF parts = <<>> THEN <<>>
    ELSE IF Len(parts) = 1 THEN parts[1]
    ELSE parts[1] \o <<c>> \o JoinWith(Tail(parts), c)

\* path segments of a path: split on "/" with empty pieces dropped
Segments(p) == SelectSeq(SplitOn(p, "/"), LAMBDA x : x # <<>>)

\* path.join(dir, name)
PathJoin(dir, name) == dir \o <<"/">> \o name

\* path.resolve(p) for p given relative to the working directory cwd
PathResolve(cwd, p) ==
    IF StartsWith(p, <<"/">>) THEN <<"/">> \o JoinWith(Segments(p), "/")
    ELSE <<"/">> \o JoinWith(Segments(cwd) \o Segments(p), "/")

RECURSIVE CommonPrefixLen(_, _)
CommonPrefixLen(a, b) ==
    IF a = <<>> \/ b = <<>> \/ Head(a) # Head(b) THEN 0
    ELSE 1 + CommonPrefixLen(Tail(a), Tail(b))

\* path.relative(from, to) with both resolved against cwd
PathRelative(cwd, from, to) ==
    LET fs == Segments(PathResolve(cwd, from))
        ts == Segments(PathResolve(cwd, to))
        c  == CommonPrefixLen(fs, ts)
        ups == [i \in 1..(Len(fs) - c) |-> <<".", ".">>]
    IN  JoinWith(ups \o SubSeq(ts, c + 1, Len(ts)), "/")

(***************************************************************************)
(* Path filter: FileSystemService.matchesPattern / shouldIncludePath and   *)
(* the gitignore-style filter of the `ignore` package                      *)
(***************************************************************************)

\* The RegExp that matchesPattern builds from a pattern ('.' escaped, '*'
\* turned into '.*', '?' into '.', flag 'i'), matched at the start of s.
RECURSIVE RegexMatchPrefix(_, _)
RegexMatchPrefix(pat, s) ==
    IF pat = <<>> THEN TRUE
    ELSE IF Head(pat) = "*"
         THEN \E k \in 0..Len(s) : RegexMatchPrefix(Tail(pat), Drop(s, k))
    ELSE /\ s # <<>>
         /\ (Head(pat) = "?" \/ LowerChar(Head(pat)) = LowerChar(Head(s)))
         /\ RegexMatchPrefix(Tail(pat), Tail(s))

\* regex.test(s): the RegExp is not anchored
RegexTest(pat, s) == \E i \in 0..Len(s) : RegexMatchPrefix(pat, Drop(s, i))

matchesPattern(filePath, pattern) ==
    RegexTest(pattern, filePath) \/ Includes(filePath, pattern)

AnyMatch(filePath, patterns) ==
    \E i \in 1..Len(patterns) : matchesPattern(filePath, patterns[i])

\* a filter that looks at the include patterns first
includeFirst(filePath, includePatterns, excludePatterns) ==
    IF Len(includePatterns) > 0 /\ AnyMatch(filePath, includePatterns) THEN TRUE
    ELSE IF AnyMatch(filePath, excludePatterns) THEN FALSE
    ELSE Len(includePatterns) = 0

shouldIncludePath(filePath, includePatterns, excludePatterns) ==
    IF AnyMatch(filePath, excludePatterns) THEN FALSE
    ELSE IF Len(includePatterns) = 0 THEN TRUE
    ELSE AnyMatch(filePath, includePatterns)

\* One gitignore pattern segment against one path segment: '*' and '?' match
\* inside a segment only, the whole segment must match, case is ignored.
RECURSIVE GlobSegment(_, _)
GlobSegment(pat, seg) ==
    IF pat = <<>> THEN seg = <<>>
    ELSE IF Head(pat) = "*"
         THEN \E k \in 0..Len(seg) : GlobSegment(Tail(pat), Drop(seg, k))
    ELSE /\ seg # <<>>
         /\ (Head(pat) = "?" \/ LowerChar(Head(pat)) = LowerChar(Head(seg)))
         /\ GlobSegment(Tail(pat), Tail(seg))

\* One gitignore rule: a pattern without '/' matches a segment at any depth
\* (and so everything below it); a pattern with '/' is anchored at the root.
IgnoreRuleMatches(pattern, relativePath) ==
    LET ps == Segments(pattern)
        xs == Segments(relativePath)
    IN  IF Len(ps) = 1
        THEN \E i \in 1..Len(xs) : GlobSegment(ps[1], xs[i])
        ELSE /\ Len(ps) <= Len(xs)
             /\ \A i \in 1..Len(ps) : GlobSegment(ps[i], xs[i])

\* ignore().add(patterns).ignores(relativePath)
Ignores(patterns, relativePath) ==
    \E i \in 1..Len(patterns) : IgnoreRuleMatches(patterns[i], relativePath)

(***************************************************************************)
(* The strings of the modelled project: paths, entry names and patterns    *)
(***************************************************************************)

S_p == <<"/", "p">>
S_w == <<"/", "w">>
S_src == <<"s", "r", "c">>
S_models == <<"m", "o", "d", "e", "l", "s">>
S_UserJs == <<"U", "s", "e", "r", ".", "j", "s">>
S_bigPy == <<"b", "i", "g", ".", "p", "y">>
S_node_modules == <<"n", "o", "d", "e", "_", "m", "o", "d", "u", "l", "e", "s">>
S_lib == <<"l", "i", "b">>
S_indexJs == <<"i", "n", "d", "e", "x", ".", "j", "s">>
S_xJs == <<"x", ".", "j", "s">>
S_README == <<"R", "E", "A", "D", "M", "E", ".", "m", "d">>
S_env == <<".", "e", "n", "v">>
S_lnk == <<"l", "n", "k">>
S_logoPng == <<"l", "o", "g", "o", ".", "p", "n", "g">>
S_appJs == <<"a", "p", "p", ".", "j", "s">>
P_starJs == <<"*", ".", "j", "s">>
P_srcModels == <<"s", "r", "c", "/", "m", "o", "d", "e", "l", "s">>
P_dist == <<"d", "i", "s", "t">>
P_rc == <<"r", "c">>

\* keywords searched for by File.autoDetectType and createFileFromPath
K_config == <<"c", "o", "n", "f", "i", "g">>
K_dotConfigDot == <<".", "c", "o", "n", "f", "i", "g", ".">>
K_conf == <<".", "c", "o", "n", "f">>
K_readme == <<"r", "e", "a", "d", "m", "e">>
K_doc == <<"d", "o", "c">>
K_test == <<"t", "e", "s", "t">>
K_spec == <<"s", "p", "e", "c">>
K_controller == <<"c", "o", "n", "t", "r", "o", "l", "l", "e", "r">>
K_service == <<"s", "e", "r", "v", "i", "c", "e">>
K_model == <<"m", "o", "d", "e", "l">>
K_component == <<"c", "o", "m", "p", "o", "n", "e", "n", "t">>
K_util == <<"u", "t", "i", "l">>
K_helper == <<"h", "e", "l", "p", "e", "r">>
K_license == <<"l", "i", "c", "e", "n", "s", "e">>
K_changelog == <<"c", "h", "a", "n", "g", "e", "l", "o", "g">>
K_makefile == <<"m", "a", "k", "e", "f", "i", "l", "e">>
K_dockerfile == <<"d", "o", "c", "k", "e", "r", "f", "i", "l", "e">>

\* FileSystemService.supportedExtensions
supportedExtensions ==
    {<<"j", "s">>,
     <<"j", "s", "x">>,
     <<"t", "s">>,
     <<"t", "s", "x">>,
     <<"p", "h", "p">>,
     <<"p", "y">>,
     <<"j", "a", "v", "a">>,
     <<"c", "s">>,
     <<"c", "p", "p">>,
     <<"c">>,
     <<"h">>,
     <<"h", "p", "p">>,
     <<"r", "b">>,
     <<"g", "o">>,
     <<"r", "s">>,
     <<"s", "w", "i", "f", "t">>,
     <<"k", "t">>,
     <<"h", "t", "m", "l">>,
     <<"c", "s", "s">>,
     <<"s", "c", "s", "s">>,
     <<"s", "a", "s", "s">>,
     <<"j", "s", "o", "n">>,
     <<"x", "m", "l">>,
     <<"y", "m", "l">>,
     <<"y", "a", "m", "l">>,
     <<"m", "d">>,
     <<"s", "q", "l">>,
     <<"s", "h">>,
     <<"b", "a", "s", "h">>,
     <<"p", "s", "1">>}

\* the configuration file names of File.autoDetectType
configFileNames ==
    {<<"p", "a", "c", "k", "a", "g", "e", ".", "j", "s", "o", "n">>,
     <<"c", "o", "m", "p", "o", "s", "e", "r", ".", "j", "s", "o", "n">>,
     <<"p", "o", "m", ".", "x", "m", "l">>,
     <<"b", "u", "i", "l", "d", ".", "g", "r", "a", "d", "l", "e">>,
     <<"m", "a", "k", "e", "f", "i", "l", "e">>,
     <<"d", "o", "c", "k", "e", "r", "f", "i", "l", "e">>}

\* importantFiles of createFileFromPath
importantFiles ==
    {<<"r", "e", "a", "d", "m", "e">>,
     <<"l", "i", "c", "e", "n", "s", "e">>,
     <<"c", "h", "a", "n", "g", "e", "l", "o", "g">>,
     <<"m", "a", "k", "e", "f", "i", "l", "e">>,
     <<"d", "o", "c", "k", "e", "r", "f", "i", "l", "e">>}

E_md == <<"m", "d">>
E_vue == <<"v", "u", "e">>
E_jsx == <<"j", "s", "x">>
styleExtensions == {<<"c", "s", "s">>,
     <<"s", "c", "s", "s">>,
     <<"s", "a", "s", "s">>,
     <<"l", "e", "s", "s">>,
     <<"s", "t", "y", "l">>}
templateExtensions == {<<"h", "t", "m", "l">>,
     <<"h", "t", "m">>,
     <<"h", "b", "s">>,
     <<"e", "j", "s">>,
     <<"p", "u", "g">>,
     <<"t", "w", "i", "g">>}
scriptExtensions == {<<"s", "h">>,
     <<"b", "a", "s", "h">>,
     <<"p", "s", "1">>,
     <<"b", "a", "t">>,
     <<"c", "m", "d">>}
dataExtensions == {<<"j", "s", "o", "n">>,
     <<"x", "m", "l">>,
     <<"c", "s", "v">>,
     <<"t", "x", "t">>,
     <<"d", "a", "t", "a">>}

\* languageMap of File.detectLanguage, as the set of its <<extension, language>> pairs
languageMap ==
    {<<<<"j", "s">>, "javascript">>,
     <<<<"j", "s", "x">>, "javascript">>,
     <<<<"t", "s">>, "typescript">>,
     <<<<"t", "s", "x">>, "typescript">>,
     <<<<"p", "h", "p">>, "php">>,
     <<<<"p", "y">>, "python">>,
     <<<<"j", "a", "v", "a">>, "java">>,
     <<<<"c", "s">>, "csharp">>,
     <<<<"c", "p", "p">>, "cpp">>,
     <<<<"c", "c">>, "cpp">>,
     <<<<"c", "x", "x">>, "cpp">>,
     <<<<"c">>, "c">>,
     <<<<"h">>, "c">>,
     <<<<"h", "p", "p">>, "cpp">>,
     <<<<"r", "b">>, "ruby">>,
     <<<<"g", "o">>, "go">>,
     <<<<"r", "s">>, "rust">>,
     <<<<"s", "w", "i", "f", "t">>, "swift">>,
     <<<<"k", "t">>, "kotlin">>,
     <<<<"h", "t", "m", "l">>, "html">>,
     <<<<"c", "s", "s">>, "css">>,
     <<<<"s", "c", "s", "s">>, "scss">>,
     <<<<"s", "a", "s", "s">>, "sass">>,
     <<<<"j", "s", "o", "n">>, "json">>,
     <<<<"x", "m", "l">>, "xml">>,
     <<<<"y", "m", "l">>, "yaml">>,
     <<<<"y", "a", "m", "l">>, "yaml">>,
     <<<<"m", "d">>, "markdown">>,
     <<<<"s", "q", "l">>, "sql">>,
     <<<<"s", "h">>, "shell">>,
     <<<<"b", "a", "s", "h">>, "shell">>,
     <<<<"p", "s", "1">>, "powershell">>}

(***************************************************************************)
(* File model (File.js)                                                    *)
(***************************************************************************)

Last(seq) == seq[Len(seq)]

\* File.getExtension: the text after the last '.' of the whole path
getExtension(path) ==
    LET parts == SplitOn(path, ".")
    IN  IF Len(parts) > 1 THEN ToLower(Last(parts)) ELSE <<>>

\* File.getFullName: the last '/'-separated piece of the path
getFullName(path) ==
    LET piece == Last(SplitOn(path, "/"))
    IN  IF piece # <<>> THEN piece ELSE path

\* File.getName: the full name up to its first '.'
getName(path) == SplitOn(getFullName(path), ".")[1]

\* File.detectLanguage
detectLanguage(extension) ==
    IF \E pair \in languageMap : pair[1] = extension
    THEN (CHOOSE pair \in languageMap : pair[1] = extension)[2]
    ELSE "unknown"

\* the conditions of the if statements of File.autoDetectType, in their
\* order, for the lower-cased full name, the lower-cased path and the extension
typeRulesOf(fileName, path, extension) ==
    << [ tag |-> "config",
         hit |-> \/ fileName \in configFileNames
                 \/ Includes(fileName, K_config)
                 \/ Includes(fileName, K_dotConfigDot)
                 \/ Includes(fileName, K_conf) ],
       [ tag |-> "readme",
         hit |-> \/ Includes(fileName, K_readme)
                 \/ extension = E_md
                 \/ Includes(fileName, K_doc) ],
       [ tag |-> "test",
         hit |-> \/ Includes(path, K_test) \/ Includes(path, K_spec)
                 \/ Includes(fileName, K_test) \/ Includes(fileName, K_spec) ],
       [ tag |-> "controller",
         hit |-> Includes(fileName, K_controller) \/ Includes(path, K_controller) ],
       [ tag |-> "service",
         hit |-> Includes(fileName, K_service) \/ Includes(path, K_service) ],
       [ tag |-> "model",
         hit |-> Includes(fileName, K_model) \/ Includes(path, K_model) ],
       [ tag |-> "component",
         hit |-> \/ Includes(fileName, K_component)
                 \/ extension = E_vue
                 \/ (extension = E_jsx /\ ~Includes(fileName, K_test)) ],
       [ tag |-> "utility",
         hit |-> \/ Includes(fileName, K_util) \/ Includes(fileName, K_helper)
                 \/ Includes(path, K_util) \/ Includes(path, K_helper) ],
       [ tag |-> "style", hit |-> extension \in styleExtensions ],
       [ tag |-> "template", hit |-> extension \in templateExtensions ],
       [ tag |-> "script", hit |-> extension \in scriptExtensions ],
       [ tag |-> "data", hit |-> extension \in dataExtensions ] >>

\* const fileName = this.getFullName().toLowerCase(); const path = this.path.toLowerCase()
typeRules(filePath) ==
    typeRulesOf(ToLower(getFullName(filePath)), ToLower(filePath), getExtension(filePath))

\* the rule a file with several matching rules is given if the last match won
lastRule(hits) == SetMax(hits)

\* the rule whose return statement is reached: the earliest one that matches
firstRule(hits) == SetMin(hits)

\* the return statement File.autoDetectType reaches: that of the first rule
\* that matches, else module or other by language
returnedType(rules, language) ==
    LET hits == {i \in 1..Len(rules) : rules[i].hit}
    IN  IF hits # {} THEN rules[firstRule(hits)].tag
        ELSE IF language \in {"javascript", "typescript", "python", "php", "java", "csharp"}
        THEN "module"
        ELSE "other"

\* File.autoDetectType
autoDetectType(filePath) ==
    returnedType(typeRules(filePath), detectLanguage(getExtension(filePath)))

\* Math.max(1, Math.min(10, c))
Clamp(c) == IF c < 1 THEN 1 ELSE IF c > 10 THEN 10 ELSE c

\* new File({path, size, lastModified}): type 'other', empty description and
\* doc, lineCount 0, complexity clamped from the default 1
NewFile(path, size) ==
    [ path        |-> path,
      type        |-> "other",
      description |-> "",
      doc         |-> <<>>,
      lineCount   |-> 0,
      complexity  |-> Clamp(1),
      size        |-> size,
      extension   |-> getExtension(path),
      language    |-> detectLanguage(getExtension(path)),
      metadata    |-> <<>> ]

RECURSIVE SumOver(_, _)
SumOver(f, S) ==
    IF S = {} THEN 0
    ELSE LET x == CHOOSE y \in S : TRUE IN f[x] + SumOver(f, S \ {x})

\* number of matches of the keyword regular expressions over a content
KeywordCount(content, keywords) ==
    SumOver(content.kw, keywords \cap DOMAIN content.kw)

basicKeywords ==
    {"if", "else", "switch", "case", "for", "while", "do", "foreach",
     "try", "catch", "finally", "throw"}

\* File.calculateComplexity(content); an empty content string is falsy, so
\* only the line-count part applies to it
calculateComplexity(lineCount, content) ==
    LET sizePart == IF lineCount > 500 THEN 3
                    ELSE IF lineCount > 200 THEN 2
                    ELSE IF lineCount > 100 THEN 1 ELSE 0
        keywordCount == KeywordCount(content, basicKeywords)
        flowPart == IF keywordCount > 50 THEN 3
                    ELSE IF keywordCount > 20 THEN 2
                    ELSE IF keywordCount > 10 THEN 1 ELSE 0
        idioms == (IF content.hasAsync THEN 1 ELSE 0)
                  + (IF content.hasPromise THEN 1 ELSE 0)
                  + (IF content.hasRegex THEN 1 ELSE 0)
    IN  IF content.empty THEN Clamp(1 + sizePart)
        ELSE Clamp(1 + sizePart + flowPart + idioms)

(***************************************************************************)
(* The project on disk.  A content is what the code reads from a file:     *)
(* its number of lines, the number of whole-word matches of every keyword, *)
(* its deepest brace nesting, the idiom substrings it holds and its        *)
(* comments.  A comment is one line: its kind, the marker it starts with   *)
(* once extracted and the rest of the line.                                *)
(***************************************************************************)

D_root    == S_p
D_src     == PathJoin(D_root, S_src)
D_models  == PathJoin(D_src, S_models)
D_srcNm   == PathJoin(D_src, S_node_modules)
D_nm      == PathJoin(D_root, S_node_modules)
D_nmLib   == PathJoin(D_nm, S_lib)

\* the module names the import patterns of extractImports capture
I_os == <<"o", "s">>
I_requests == <<"r", "e", "q", "u", "e", "s", "t", "s">>
I_dotUtil == <<".", "/", "u", "t", "i", "l">>
I_absMod == <<"/", "a", "b", "s", "/", "m", "o", "d">>

\* a file content: its line count, what the keyword and idiom patterns find in
\* it, its comments, and the captures of the import patterns in match order
C_user ==
    [ empty |-> FALSE, lines |-> 50, kw |-> [k \in {"if"} |-> 1], nest |-> 2,
      hasAsync |-> FALSE, hasPromise |-> FALSE, hasRegex |-> FALSE,
      hasClass |-> TRUE, hasFunction |-> TRUE, hasImport |-> TRUE,
      comments |-> << [kind |-> "slash", mark |-> "", text |-> "// the user model"] >>,
      imports |-> << I_dotUtil >> ]

C_big ==
    [ empty |-> FALSE, lines |-> 1200,
      kw |-> [k \in {"if", "elif", "and"} |->
                 IF k = "if" THEN 60 ELSE IF k = "elif" THEN 30 ELSE 20],
      nest |-> 6,
      hasAsync |-> TRUE, hasPromise |-> TRUE, hasRegex |-> TRUE,
      hasClass |-> FALSE, hasFunction |-> TRUE, hasImport |-> TRUE,
      comments |-> << [kind |-> "hash", mark |-> "## ", text |-> "Notes"] >>,
      imports |-> << I_os, I_dotUtil, I_requests, I_os, I_absMod >> ]

C_app ==
    [ empty |-> FALSE, lines |-> 300, kw |-> [k \in {"if", "else"} |-> 6], nest |-> 4,
      hasAsync |-> TRUE, hasPromise |-> FALSE, hasRegex |-> FALSE,
      hasClass |-> FALSE, hasFunction |-> FALSE, hasImport |-> FALSE,
      comments |-> <<>>, imports |-> <<>> ]

C_text ==
    [ empty |-> FALSE, lines |-> 20, kw |-> [k \in {"for"} |-> 2], nest |-> 0,
      hasAsync |-> FALSE, hasPromise |-> FALSE, hasRegex |-> FALSE,
      hasClass |-> FALSE, hasFunction |-> FALSE, hasImport |-> FALSE,
      comments |-> <<>>, imports |-> <<>> ]

\* The directory entries in the order fs.readdir lists them.  A symbolic
\* link is a Dirent that is neither isDirectory() nor isFile().
Entries ==
    << [dir |-> D_root,   name |-> S_src,          kind |-> "dir",     size |-> 0,     content |-> C_text],
       [dir |-> D_root,   name |-> S_node_modules, kind |-> "dir",     size |-> 0,     content |-> C_text],
       [dir |-> D_root,   name |-> S_env,          kind |-> "file",    size |-> 30,    content |-> C_text],
       [dir |-> D_root,   name |-> S_lnk,          kind |-> "symlink", size |-> 0,     content |-> C_text],
       [dir |-> D_root,   name |-> S_README,       kind |-> "file",    size |-> 800,   content |-> C_text],
       [dir |-> D_root,   name |-> S_logoPng,      kind |-> "file",    size |-> 5000,  content |-> C_text],
       [dir |-> D_root,   name |-> S_appJs,        kind |-> "file",    size |-> 9000,  content |-> C_app],
       [dir |-> D_src,    name |-> S_bigPy,        kind |-> "file",    size |-> 40000, content |-> C_big],
       [dir |-> D_src,    name |-> S_models,       kind |-> "dir",     size |-> 0,     content |-> C_text],
       [dir |-> D_src,    name |-> S_node_modules, kind |-> "dir",     size |-> 0,     content |-> C_text],
       [dir |-> D_models, name |-> S_UserJs,       kind |-> "file",    size |-> 100,   content |-> C_user],
       [dir |-> D_srcNm,  name |-> S_xJs,          kind |-> "file",    size |-> 200,   content |-> C_text],
       [dir |-> D_nm,     name |-> S_lib,          kind |-> "dir",     size |-> 0,     content |-> C_text],
       [dir |-> D_nmLib,  name |-> S_indexJs,      kind |-> "file",    size |-> 300,   content |-> C_text] >>

EntryPath(e) == PathJoin(e.dir, e.name)

\* fs.readdir(dirPath, {withFileTypes: true})
ReadDir(dirPath) == SelectSeq(Entries, LAMBDA e : e.dir = dirPath)

\* the entry that fs.stat / fs.readFile find at a path
EntryAt(path) == CHOOSE e \in {Entries[i] : i \in 1..Len(Entries)} : EntryPath(e) = path

FilePaths == {EntryPath(Entries[i]) : i \in {j \in 1..Len(Entries) : Entries[j].kind = "file"}}
DirPaths  == {D_root} \cup
             {EntryPath(Entries[i]) : i \in {j \in 1..Len(Entries) : Entries[j].kind = "dir"}}

(***************************************************************************)
(* FileSystemService: content helpers and createFileFromPath               *)
(***************************************************************************)

\* docPatterns[language] || docPatterns.javascript: for each regular
\* expression, in order, the kinds of comment it matches
docPatterns(language) ==
    CASE language = "python" -> << {"docstring"}, {"docstring1"}, {"hash"} >>
      [] language = "php"    -> << {"jsdoc"}, {"jsdoc", "block"}, {"slash"}, {"hash"} >>
      [] language = "csharp" -> << {"xmldoc"}, {"jsdoc"}, {"jsdoc", "block"}, {"slash", "xmldoc"} >>
      [] OTHER               -> << {"jsdoc"}, {"jsdoc", "block"}, {"slash"} >>

RECURSIVE Flatten(_)
Flatten(seqs) == IF seqs = <<>> THEN <<>> ELSE Head(seqs) \o Flatten(Tail(seqs))

\* FileSystemService.extractDocumentation: the matches of every pattern,
\* joined with '\n'; the result is a sequence of lines [mark, text]
extractDocumentation(content, language) ==
    LET pats == docPatterns(language)
        found == [i \in 1..Len(pats) |->
                    SelectSeq(content.comments, LAMBDA c : c.kind \in pats[i])]
        all == Flatten(found)
    IN  [i \in 1..Len(all) |-> [mark |-> all[i].mark, text |-> all[i].text]]

\* FileSystemService.generateFileDescription
generateFileDescription(file, content) ==
    CASE file.type = "readme"     -> "Project documentation and information"
      [] file.type = "config"     -> "Configuration settings and parameters"
      [] file.type = "test"       -> "Test suite for " \o file.language \o " code"
      [] file.type = "controller" -> "Handles HTTP requests and application flow"
      [] file.type = "service"    -> "Business logic and service operations"
      [] file.type = "model"      -> "Data model and entity definitions"
      [] file.type = "component"  -> "UI component and user interface logic"
      [] file.type = "utility"    -> "Utility functions and helper methods"
      [] OTHER ->
           IF ~content.empty /\ content.hasClass
           THEN file.language \o " class/interface definitions"
           ELSE IF ~content.empty /\ content.hasFunction
           THEN file.language \o " function implementations"
           ELSE IF ~content.empty /\ content.hasImport
           THEN file.language \o " module with dependencies"
           ELSE file.language \o " source file"

\* Math.ceil(size / 50)
CeilDiv50(size) == (size + 49) \div 50

\* the hard-wired size limit of createFileFromPath: 10 * 1024 * 1024
HardFileSizeLimit == 10485760

\* FileSystemService.createFileFromPath(filePath, readContent): <<>> stands
\* for null, <<file>> for a File.  env.badStat are the paths whose fs.stat
\* fails, env.badRead those whose fs.readFile fails.
createFileFromPath(filePath, readContent, env) ==
    IF filePath \in env.badStat THEN <<>>
    ELSE
    LET stats == EntryAt(filePath)
        file0 == NewFile(filePath, stats.size)
        file1 == [file0 EXCEPT !.type = autoDetectType(filePath)]
        name  == ToLower(getName(filePath))
    IN  IF stats.size > HardFileSizeLimit THEN <<>>
        ELSE IF /\ file1.extension \notin supportedExtensions
                /\ ~\E imp \in importantFiles : Includes(name, imp)
        THEN <<>>
        ELSE IF readContent
        THEN IF filePath \in env.badRead
             THEN << file1 >>
             ELSE LET content == stats.content
                      lc == content.lines
                      withLines == [file1 EXCEPT !.lineCount = lc]
                  IN  << [withLines EXCEPT
                            !.complexity = calculateComplexity(lc, content),
                            !.doc = extractDocumentation(content, file1.language),
                            !.description = generateFileDescription(withLines, content)] >>
        ELSE << [file1 EXCEPT !.lineCount = CeilDiv50(stats.size)] >>

(***************************************************************************)
(* Folder model (Folder.js) and the directory walker                       *)
(***************************************************************************)

\* new Folder({path, depth}); files and subfolders hold references, written
\* here as the paths of the File and Folder objects
NewFolder(path, depth) ==
    [ path |-> path, include |-> TRUE, description |-> "", depth |-> depth,
      files |-> <<>>, subfolders |-> <<>>, fileCount |-> 0, totalSize |-> 0 ]

\* a folder that puts a new file before the files it has (unshift)
addFileFirst(folder, file) ==
    [folder EXCEPT !.files = << file.path >> \o @,
                   !.fileCount = @ + 1,
                   !.totalSize = @ + file.size]

\* Folder.addFile
addFile(folder, file) ==
    [folder EXCEPT !.files = Append(@, file.path),
                   !.fileCount = @ + 1,
                   !.totalSize = @ + file.size]

\* Folder.addSubfolder
addSubfolder(folder, sub) ==
    [folder EXCEPT !.subfolders = Append(@, sub.path)]

\* the position in allFolders of the Folder object the walker holds as
\* parentFolder (the object created for currentPath)
FolderIndex(folders, path) ==
    SetMin({i \in 1..Len(folders) : folders[i].path = path})

\* a walker that gives a subfolder the depth of its parent
SubfolderSameDepth(entryPath, currentDepth) == NewFolder(entryPath, currentDepth)

\* the Folder object created for one directory entry
SubfolderFor(entryPath, currentDepth) == NewFolder(entryPath, currentDepth + 1)

\* what the walker does with a Dirent: descend, record a file, or pass
EntryAction(e, opts) ==
    IF e.kind = "dir" THEN "descend"
    ELSE IF e.kind = "file" /\ opts.includeFiles THEN "file"
    ELSE "pass"

\* a walker that consults no ignore filter
walkerIgnoresNothing(opts, relativePath) == FALSE

\* ignoreFilter.ignores(relativePath) in _scanRecursive, the filter being
\* ignore().add(excludePatterns)
walkerIgnores(opts, relativePath) == Ignores(opts.excludePatterns, relativePath)

\* a walk that loses the files it has recorded when a directory cannot be read
onReaddirErrorAbort(acc, currentPath) ==
    [acc EXCEPT !.files = <<>>, !.warnings = Append(@, currentPath)]

\* the catch block of _scanRecursive: a warning, and the walk goes on with
\* what it has recorded
onReaddirError(acc, currentPath) == [acc EXCEPT !.warnings = Append(@, currentPath)]

\* FileSystemService._scanRecursive.  acc = [files, folders, warnings] stands
\* for allFiles, allFolders and the console warnings.  options.rootPath is
\* never set by scanDirectory, so the relative path handed to the ignore
\* filter is path.relative(currentPath, entryPath).
\* a walker that stops one level later
depthExceeded(currentDepth, maxDepth) == currentDepth > maxDepth

\* if (currentDepth >= maxDepth) return
depthReached(currentDepth, maxDepth) == currentDepth >= maxDepth

RECURSIVE scanEntries(_, _, _, _, _, _)
RECURSIVE scanRecursive(_, _, _, _, _)
scanRecursive(currentPath, currentDepth, opts, env, acc) ==
    IF depthReached(currentDepth, opts.maxDepth) THEN acc
    ELSE IF currentPath \in env.badDirs
    THEN onReaddirError(acc, currentPath)
    ELSE scanEntries(ReadDir(currentPath), currentPath, currentDepth, opts, env, acc)

scanEntries(entries, currentPath, currentDepth, opts, env, acc) ==
    IF entries = <<>> THEN acc
    ELSE
    LET e == Head(entries)
        rest == Tail(entries)
        entryPath == PathJoin(currentPath, e.name)
        relativePath == PathRelative(env.cwd, currentPath, entryPath)
        parent == FolderIndex(acc.folders, currentPath)
        act == EntryAction(e, opts)
    IN  IF ~opts.includeHidden /\ StartsWith(e.name, <<".">>)
        THEN scanEntries(rest, currentPath, currentDepth, opts, env, acc)
        ELSE IF walkerIgnores(opts, relativePath)
        THEN scanEntries(rest, currentPath, currentDepth, opts, env, acc)
        ELSE IF act = "descend"
        THEN LET sub == SubfolderFor(entryPath, currentDepth)
                 acc1 == [acc EXCEPT
                            !.folders = Append(
                                [@ EXCEPT ![parent] = addSubfolder(@, sub)], sub)]
                 acc2 == scanRecursive(entryPath, currentDepth + 1, opts, env, acc1)
             IN  scanEntries(rest, currentPath, currentDepth, opts, env, acc2)
        ELSE IF act = "file"
        THEN LET made == createFileFromPath(entryPath, FALSE, env)
                 acc1 == IF made = <<>>
                         THEN IF entryPath \in env.badStat
                              THEN [acc EXCEPT !.warnings = Append(@, entryPath)]
                              ELSE acc
                         ELSE [acc EXCEPT
                                 !.folders[parent] = addFile(@, made[1]),
                                 !.files = Append(@, made[1])]
             IN  scanEntries(rest, currentPath, currentDepth, opts, env, acc1)
        ELSE scanEntries(rest, currentPath, currentDepth, opts, env, acc)

\* what a call of scanDirectory would return if allFiles outlived the call
walkResultKept(previous, result) ==
    IF previous = <<>> THEN result
    ELSE [result EXCEPT !.files = previous[1].files \o @]

\* what a call of scanDirectory returns, given what the call before it on the
\* same FileSystemService returned: rootFolder, allFiles and allFolders are
\* made anew by every call
walkResult(previous, result) == result

\* FileSystemService.scanDirectory
scanDirectory(rootPath, opts, env) ==
    scanRecursive(rootPath, 0, opts, env,
                  [files |-> <<>>, folders |-> << NewFolder(rootPath, 0) >>, warnings |-> <<>>])

(***************************************************************************)
(* IndexingService                                                         *)
(***************************************************************************)

\* String.trim for the spaces at both ends of a line
RECURSIVE Trim(_)
Trim(line) ==
    IF line = <<>> THEN line
    ELSE IF Head(line) = " " THEN Trim(Tail(line))
    ELSE IF Last(line) = " " THEN Trim(SubSeq(line, 1, Len(line) - 1))
    ELSE line

\* GitService.normalizeGitignorePattern: a trailing slash is removed
normalizeGitignorePattern(pattern) ==
    IF Last(pattern) = "/" THEN SubSeq(pattern, 1, Len(pattern) - 1) ELSE pattern

\* GitService.parseGitignoreContent on the lines of the file
parseGitignoreContent(lines) ==
    LET trimmed == [i \in 1..Len(lines) |-> Trim(lines[i])]
        kept    == SelectSeq(trimmed, LAMBDA line : line # <<>> /\ ~StartsWith(line, <<"#">>))
    IN  [i \in 1..Len(kept) |-> normalizeGitignorePattern(kept[i])]

\* GitService.loadGitignorePatterns: env.gitignore is the .gitignore of the
\* project root as lines; a missing file is the empty list
loadGitignorePatterns(env) == parseGitignoreContent(env.gitignore)

\* a filter that is built from the exclude patterns only
buildIgnoreFilterNoGit(config, env) == config.exclude

\* IndexingService.buildIgnoreFilter: the exclude patterns of the
\* configuration, then the .gitignore patterns when useGitignore is set
buildIgnoreFilter(config, env) ==
    IF config.useGitignore
    THEN config.exclude \o loadGitignorePatterns(env)
    ELSE config.exclude

\* config.include.map(pattern => path.relative(config.project.rootPath, pattern))
includeRelative(config, env) ==
    [i \in 1..Len(config.include) |->
        PathRelative(env.cwd, config.rootPath, config.include[i])]

\* the `ignore` package throws on a path that is not a plain relative path
IsPlainRelative(relativePath) ==
    /\ relativePath # <<>>
    /\ ~StartsWith(relativePath, <<"/">>)
    /\ ~StartsWith(relativePath, <<".", ".">>)

\* the predicate of IndexingService.filterFiles for one file path
fileFilter(filePath, config, ignoreFilter, env) ==
    LET relativePath == PathRelative(env.cwd, config.rootPath, filePath)
    IN  IF relativePath = <<>> THEN FALSE
        ELSE IF ~IsPlainRelative(relativePath) THEN FALSE
        ELSE IF Ignores(ignoreFilter, relativePath) THEN FALSE
        ELSE IF Len(config.include) > 0
        THEN shouldIncludePath(relativePath, includeRelative(config, env), <<>>)
        ELSE TRUE

\* IndexingService.filterFiles
filterFiles(files, config, ignoreFilter, env) ==
    SelectSeq(files, LAMBDA f : fileFilter(f.path, config, ignoreFilter, env))

\* the predicate of IndexingService.filterFolders for one folder path; it is
\* also the value the filter writes into folder.include
folderFilter(folderPath, config, ignoreFilter, env) ==
    LET relativePath == PathRelative(env.cwd, config.rootPath, folderPath)
    IN  IF relativePath = <<>> THEN TRUE
        ELSE IF ~IsPlainRelative(relativePath) THEN FALSE
        ELSE IF Ignores(ignoreFilter, relativePath) THEN FALSE
        ELSE IF Len(config.include) > 0
        THEN shouldIncludePath(relativePath, includeRelative(config, env), <<>>)
        ELSE TRUE

\* IndexingService.filterFolders
filterFolders(folders, config, ignoreFilter, env) ==
    LET marked == [i \in 1..Len(folders) |->
                     [folders[i] EXCEPT !.include =
                         folderFilter(folders[i].path, config, ignoreFilter, env)]]
    IN  SelectSeq(marked, LAMBDA f : f.include)

\* cyclomaticKeywords[language] || cyclomaticKeywords.javascript
cyclomaticKeywords(language) ==
    IF language = "python"
    THEN {"if", "elif", "else", "for", "while", "try", "except", "and", "or"}
    ELSE {"if", "else", "switch", "case", "for", "while", "do", "try", "catch",
          "&&", "||", "?"}

\* new RegExp(`\\b${keyword}\\b`, 'gi') is a SyntaxError ("nothing to
\* repeat") when the keyword is the quantifier '?'
RegExpCompiles(keyword) == keyword # "?"

\* a score that is returned as computed
AdvancedNoClamp(c) == c

\* the clamp at the end of calculateAdvancedComplexity
AdvancedClamp(c) == Clamp(c)

\* IndexingService.calculateAdvancedComplexity: [threw, value]
calculateAdvancedComplexity(content, language) ==
    LET keywords == cyclomaticKeywords(language)
        keywordCount == KeywordCount(content, keywords)
        flowPart == IF keywordCount > 100 THEN 4
                    ELSE IF keywordCount > 50 THEN 3
                    ELSE IF keywordCount > 20 THEN 2
                    ELSE IF keywordCount > 10 THEN 1 ELSE 0
        nestPart == IF content.nest > 5 THEN 2
                    ELSE IF content.nest > 3 THEN 1 ELSE 0
        linePart == IF content.lines > 1000 THEN 3
                    ELSE IF content.lines > 500 THEN 2
                    ELSE IF content.lines > 200 THEN 1 ELSE 0
        idioms == (IF content.hasAsync THEN 1 ELSE 0)
                  + (IF content.hasPromise THEN 1 ELSE 0)
                  + (IF content.hasRegex THEN 1 ELSE 0)
    IN  IF \E k \in keywords : ~RegExpCompiles(k)
        THEN [threw |-> TRUE, value |-> 0]
        ELSE [threw |-> FALSE,
              value |-> AdvancedClamp(1 + flowPart + nestPart + linePart + idioms)]

\* the first occurrences of the elements of a list, in order
RECURSIVE FirstOccurrences(_)
FirstOccurrences(seq) ==
    IF seq = <<>> THEN <<>>
    ELSE LET front == FirstOccurrences(SubSeq(seq, 1, Len(seq) - 1))
         IN  IF \E i \in 1..Len(front) : front[i] = Last(seq)
             THEN front ELSE Append(front, Last(seq))

\* an array that keeps every element pushed to it
KeepAll(pushed) == pushed

\* new Set() filled with the elements pushed, read back with [...set] or
\* Array.from(set)
Dedup(pushed) == FirstOccurrences(pushed)

\* imp.startsWith('.') || imp.startsWith('/')
isInternalImport(imp) == StartsWith(imp, <<".">>) \/ StartsWith(imp, <<"/">>)

\* IndexingService.extractImports: the captures of all patterns, made unique
extractImports(content, language) == Dedup(content.imports)

\* IndexingService.extractDependencies
extractDependencies(content, language) ==
    SelectSeq(extractImports(content, language), LAMBDA imp : ~isInternalImport(imp))

\* IndexingService.performDetailedAnalysis: every failure is caught and
\* leaves the file as it was
performDetailedAnalysis(file, env) ==
    IF file.path \in env.badRead THEN file
    ELSE LET content == EntryAt(file.path).content
             adv == calculateAdvancedComplexity(content, file.language)
         IN  IF adv.threw THEN file
             ELSE [file EXCEPT !.complexity = adv.value,
                               !.metadata =
                                   << [ imports |-> extractImports(content, file.language),
                                        dependencies |->
                                            extractDependencies(content, file.language) ] >>]

\* one promise of IndexingService.enrichFilesWithContent
enrichFile(file, detailed, env) ==
    LET made == createFileFromPath(file.path, TRUE, env)
    IN  IF made = <<>> THEN file
        ELSE LET copied == [file EXCEPT !.lineCount = made[1].lineCount,
                                        !.complexity = made[1].complexity,
                                        !.doc = made[1].doc,
                                        !.description = made[1].description]
             IN  IF detailed THEN performDetailedAnalysis(copied, env) ELSE copied

\* File.toObject: path, type, description, doc, lineCount, complexity, size,
\* extension and language are copied; metadata is not among them
fileToObject(file) == [file EXCEPT !.metadata = <<>>]

\* Folder.toObject (the nested file and subfolder objects stay references)
folderToObject(folder) == folder

\* the node buildFolderStructure makes for a file; folder and file nodes
\* are given the same fields here, a folder's file fields being unused
fileNode(file) ==
    [ name |-> getFullName(file.path), path |-> file.path, type |-> "file",
      fileType |-> file.type, language |-> file.language, size |-> file.size,
      complexity |-> file.complexity, description |-> file.description,
      children |-> <<>> ]

\* the subfolders buildFolderStructure selects below a folder
structureSubfolders(folder, allFolders) ==
    SelectSeq(allFolders, LAMBDA f :
        /\ StartsWith(f.path, folder.path \o <<"/">>)
        /\ f.depth = folder.depth + 1)

\* the files buildFolderStructure selects for a folder
structureFiles(folder, allFiles) ==
    SelectSeq(allFiles, LAMBDA f :
        /\ StartsWith(f.path, folder.path \o <<"/">>)
        /\ ~Includes(Drop(f.path, Len(folder.path) + 1), <<"/">>))

\* IndexingService.buildFolderStructure
RECURSIVE buildFolderStructure(_, _, _)
buildFolderStructure(folder, allFolders, allFiles) ==
    LET subs == structureSubfolders(folder, allFolders)
        own  == structureFiles(folder, allFiles)
    IN  [ name |-> getFullName(folder.path), path |-> folder.path, type |-> "folder",
          fileType |-> "", language |-> "", size |-> 0, complexity |-> 0,
          description |-> "",
          children |->
              [i \in 1..Len(subs) |-> buildFolderStructure(subs[i], allFolders, allFiles)]
              \o [i \in 1..Len(own) |-> fileNode(own[i])] ]

\* IndexingService.buildProjectStructure: <<>> stands for the empty object
buildProjectStructure(folders, files) ==
    LET roots == SelectSeq(folders, LAMBDA f : f.depth = 0)
    IN  IF roots = <<>> THEN <<>>
        ELSE << buildFolderStructure(roots[1], folders, files) >>

RECURSIVE SumSizes(_)
SumSizes(files) == IF files = <<>> THEN 0 ELSE Head(files).size + SumSizes(Tail(files))

\* Folder.getName: the text after the last '/', the whole path when that is empty
folderGetName(path) ==
    LET name == Last(SplitOn(path, "/"))
    IN  IF name # <<>> THEN name ELSE path

A_models == <<"m", "o", "d", "e", "l", "s">>
A_views == <<"v", "i", "e", "w", "s">>
A_controllers == <<"c", "o", "n", "t", "r", "o", "l", "l", "e", "r", "s">>
A_services == <<"s", "e", "r", "v", "i", "c", "e", "s">>
A_repositories == <<"r", "e", "p", "o", "s", "i", "t", "o", "r", "i", "e", "s">>
A_entities == <<"e", "n", "t", "i", "t", "i", "e", "s">>
A_usecases == <<"u", "s", "e", "c", "a", "s", "e", "s">>

\* folderNames.includes(w) for one w only
hasAny(folderNames, wanted) ==
    \E w \in wanted : \E i \in 1..Len(folderNames) : folderNames[i] = w

\* folderNames.includes(w) && ... for every w of wanted
hasAll(folderNames, wanted) ==
    \A w \in wanted : \E i \in 1..Len(folderNames) : folderNames[i] = w

\* IndexingService.detectArchitecturePattern
detectArchitecturePattern(foldersArg) ==
    LET folderNames == [i \in 1..Len(foldersArg) |->
                            ToLower(folderGetName(foldersArg[i].path))]
        serviceLike == {i \in 1..Len(folderNames) : Includes(folderNames[i], K_service)}
        patterns ==
            (IF hasAll(folderNames, {A_models, A_views, A_controllers})
             THEN << "MVC" >> ELSE <<>>)
            \o (IF hasAll(folderNames, {A_services, A_repositories})
                THEN << "Layered" >> ELSE <<>>)
            \o (IF hasAll(folderNames, {A_entities, A_usecases})
                THEN << "Clean Architecture" >> ELSE <<>>)
            \o (IF Cardinality(serviceLike) > 2
                THEN << "Microservices" >> ELSE <<>>)
    IN  IF Len(patterns) > 0 THEN patterns ELSE << "Unknown" >>

\* IndexingService.analyzeDependencies: two Sets filled file by file
analyzeDependencies(filesArg) ==
    LET withMetadata == SelectSeq(filesArg, LAMBDA f : f.metadata # <<>>)
        dependencies == Flatten([i \in 1..Len(withMetadata) |->
                                   withMetadata[i].metadata[1].dependencies])
        internal     == Flatten([i \in 1..Len(withMetadata) |->
                                   SelectSeq(withMetadata[i].metadata[1].imports,
                                             isInternalImport)])
    IN  [ externalDependencies |-> Dedup(dependencies),
          internalModules      |-> Dedup(internal),
          totalDependencies    |-> Cardinality({dependencies[i] : i \in 1..Len(dependencies)}),
          totalInternalModules |-> Cardinality({internal[i] : i \in 1..Len(internal)}) ]

\* IndexingService.calculateTestCoverage: file.path is the path the walker
\* gave the File, searched as it is written
calculateTestCoverage(filesArg) ==
    LET testFiles == {i \in 1..Len(filesArg) :
                         \/ filesArg[i].type = "test"
                         \/ Includes(filesArg[i].path, K_test)
                         \/ Includes(filesArg[i].path, K_spec)}
        sourceFiles == {i \in 1..Len(filesArg) :
                           /\ i \notin testFiles
                           /\ filesArg[i].language \in
                                 {"javascript", "typescript", "python", "java", "php"}}
        tests == Cardinality(testFiles)
        sources == Cardinality(sourceFiles)
    IN  [ testFiles |-> tests,
          sourceFiles |-> sources,
          estimatedCoverage |-> IF sources > 0
                                THEN (2 * 100 * tests + sources) \div (2 * sources)
                                ELSE 0,
          hasTests |-> tests > 0 ]

\* IndexingService.analyzeProjectStructure (frameworks, patterns and
\* documentation left out)
analyzeProjectStructure(filesArg, foldersArg) ==
    [ architecture |-> detectArchitecturePattern(foldersArg),
      testCoverage |-> calculateTestCoverage(filesArg),
      dependencies |-> analyzeDependencies(filesArg) ]

\* a count that only says whether a type was seen
typeSeen(filesArg, type) == 1

\* distribution[type] = (distribution[type] || 0) + 1, for every file
typeCount(filesArg, type) ==
    Cardinality({i \in 1..Len(filesArg) : filesArg[i].type = type})

\* IndexingService.getFileTypeDistribution: an object with one count per type
getFileTypeDistribution(filesArg) ==
    [type \in {filesArg[i].type : i \in 1..Len(filesArg)} |-> typeCount(filesArg, type)]

\* IndexingService.calculateOverallComplexity; average is kept in hundredths:
\* Math.round(average * 100) / 100 is average100 / 100
calculateOverallComplexity(filesArg) ==
    IF Len(filesArg) = 0
    THEN [average100 |-> 0, max |-> 0, min |-> 0, distribution |-> <<>>]
    ELSE LET complexities == [i \in 1..Len(filesArg) |-> filesArg[i].complexity]
             sum == SumOver(complexities, 1..Len(complexities))
         IN  [ average100 |-> (2 * 100 * sum + Len(complexities))
                                \div (2 * Len(complexities)),
               max |-> SetMax({complexities[i] : i \in 1..Len(complexities)}),
               min |-> SetMin({complexities[i] : i \in 1..Len(complexities)}),
               distribution |->
                   [level \in 1..10 |->
                       Cardinality({i \in 1..Len(complexities) :
                                      complexities[i] = level})] ]

buildIndex(filteredFiles, filteredFolders) ==
    [ files     |-> [i \in 1..Len(filteredFiles) |-> fileToObject(filteredFiles[i])],
      folders   |-> [i \in 1..Len(filteredFolders) |-> folderToObject(filteredFolders[i])],
      structure |-> buildProjectStructure(filteredFolders, filteredFiles),
      analysis  |-> analyzeProjectStructure(filteredFiles, filteredFolders),
      metadata  |-> [ totalFiles   |-> Len(filteredFiles),
                      totalFolders |-> Len(filteredFolders),
                      totalSize    |-> SumSizes(filteredFiles),
                      fileTypes    |-> getFileTypeDistribution(filteredFiles),
                      complexity   |-> calculateOverallComplexity(filteredFiles) ] ]

\* the nodes of a structure tree, parents before children
RECURSIVE structureNodes(_)
structureNodes(node) ==
    << node >> \o Flatten([i \in 1..Len(node.children) |-> structureNodes(node.children[i])])

(***************************************************************************)
(* AIService                                                               *)
(***************************************************************************)

\* AIService.generateFileDescription when callOllama answers (the cleaned
\* response) or throws (the fallback of the catch block)
aiFileDescription(file, aiUp) ==
    IF aiUp THEN "AI: describes the file"
    ELSE IF file.description # "" THEN file.description
    ELSE "File description unavailable"

\* AIService.generateFolderDescription
aiFolderDescription(folder, aiUp) ==
    IF aiUp THEN "AI: describes the folder"
    ELSE IF folder.description # "" THEN folder.description
    ELSE "Folder description unavailable"

\* the test of enhanceProjectIndex for asking for a description
needsDescription(x) == x.description = "" \/ Len(x.description) < 10

\* an enhancement that writes the fallback text over every description when
\* the text generation fails
enhanceOverwrites(index, aiUp) ==
    [index EXCEPT
       !.files = [i \in 1..Len(index.files) |->
                    [index.files[i] EXCEPT !.description =
                        IF aiUp THEN "AI: describes the file"
                        ELSE "File description unavailable"]]]

\* AIService.enhanceProjectIndex: the index with the descriptions attached
\* to its files and folders lists
enhanceProjectIndex(index, aiUp) ==
    [index EXCEPT
       !.files = [i \in 1..Len(index.files) |->
                    LET file == index.files[i]
                    IN  IF needsDescription(file)
                        THEN [file EXCEPT !.description = aiFileDescription(file, aiUp)]
                        ELSE file],
       !.folders = [i \in 1..Len(index.folders) |->
                    LET folder == index.folders[i]
                    IN  IF needsDescription(folder)
                        THEN [folder EXCEPT !.description = aiFolderDescription(folder, aiUp)]
                        ELSE folder]]

\* AIService.generateProjectOverview / generateArchitectureAnalysis /
\* generateDetailedFileDocumentation: the answer, or the text of the catch
aiText(aiUp, fallback) == IF aiUp THEN "AI: generated text" ELSE fallback

\* AIService.generateDetailedDocumentation: [overview, architecture, detailed],
\* detailed being the paths of the files (complexity > 5) given aiDetailedDoc
generateDetailedDocumentation(index, aiUp) ==
    [ overview     |-> aiText(aiUp, "Project overview generation failed"),
      architecture |-> aiText(aiUp, "Architecture analysis generation failed"),
      detailedDoc  |-> aiText(aiUp, "Detailed documentation generation failed"),
      detailed     |-> {index.files[i].path :
                          i \in {j \in 1..Len(index.files) : index.files[j].complexity > 5}} ]

(***************************************************************************)
(* ExportService: mind maps                                                *)
(***************************************************************************)

\* x || fallback for strings
OrElse(x, fallback) == IF x = "" THEN fallback ELSE x

\* ExportService.buildMarkdownStructure: one item per bullet line written
RECURSIVE buildMarkdownStructure(_, _, _)
buildMarkdownStructure(node, depth, maxDepth) ==
    IF depth >= maxDepth THEN <<>>
    ELSE IF node.type = "folder"
    THEN << [kind |-> "folder", path |-> node.path, name |-> node.name,
             description |-> OrElse(node.description, "Folder")] >>
         \o Flatten([i \in 1..Len(node.children) |->
                       buildMarkdownStructure(node.children[i], depth + 1, maxDepth)])
    ELSE << [kind |-> "file", path |-> node.path, name |-> node.name,
             description |-> OrElse(node.description, "File")] >>

\* ExportService.generateMarkdownMindmap: the bullet lines of the
\* "Project Structure" section (an empty structure object writes none)
generateMarkdownMindmap(index, files, maxDepth) ==
    IF index.structure = <<>> THEN <<>>
    ELSE buildMarkdownStructure(index.structure[1], 0, maxDepth)

\* the category groupFilesByCategory puts a file type in
categoryOf(type) ==
    CASE type = "test" -> "Tests"
      [] type = "config" -> "Configuration"
      [] type \in {"readme", "documentation"} -> "Documentation"
      [] type \in {"style", "template", "data"} -> "Assets"
      [] OTHER -> "Source Code"

categoryOrder == << "Source Code", "Tests", "Configuration", "Documentation", "Assets" >>

\* ExportService.groupFilesByCategory: the non-empty categories in order
groupFilesByCategory(files) ==
    LET groups == [c \in 1..Len(categoryOrder) |->
                     SelectSeq(files, LAMBDA f : categoryOf(f.type) = categoryOrder[c])]
    IN  SelectSeq(groups, LAMBDA g : g # <<>>)

\* the file nodes generateMermaidMindmap (sample 5) and generateDotMindmap
\* (sample 3) write: the first files of every category
categorySample(files, sample) ==
    LET groups == groupFilesByCategory(files)
        firsts == [g \in 1..Len(groups) |->
                     SubSeq(groups[g], 1, IF Len(groups[g]) < sample THEN Len(groups[g]) ELSE sample)]
        all == Flatten(firsts)
    IN  [i \in 1..Len(all) |->
            [kind |-> "file", path |-> all[i].path, name |-> getFullName(all[i].path),
             description |-> ""]]

MermaidSample == 5
DotSample == 3

\* ExportService.generateMindmap
generateMindmap(index, options) ==
    LET files == IF Len(options.typesOnly) > 0
                 THEN SelectSeq(index.files, LAMBDA f :
                          \E i \in 1..Len(options.typesOnly) : options.typesOnly[i] = f.type)
                 ELSE index.files
    IN  CASE options.format = "mermaid" -> categorySample(files, MermaidSample)
          [] options.format = "dot" -> categorySample(files, DotSample)
          [] OTHER -> generateMarkdownMindmap(index, files, options.maxDepth)

(***************************************************************************)
(* ExportService: full documentation.  A document is a sequence of lines;  *)
(* a line is [mark, text, ref, role]: the heading marker it starts with    *)
(* ("" for none), the rest of its text, the path it prints (<<>> for none) *)
(* and the part of the document that wrote it.  Runs of body lines that    *)
(* hold no file data are folded into one line; "<fence>" is the line of    *)
(* three backquotes that opens or closes a code block.                     *)
(***************************************************************************)

Line(mark, text, ref, role) == [mark |-> mark, text |-> text, ref |-> ref, role |-> role]

\* Buffer.byteLength of a document (one byte per character and line end)
RECURSIVE byteLength(_)
byteLength(doc) ==
    IF doc = <<>> THEN 0
    ELSE Len(Head(doc).mark) + Len(Head(doc).text) + Len(Head(doc).ref) + 1
         + byteLength(Tail(doc))

\* ExportService.generateTitlePage
generateTitlePage(index, ai) ==
    << Line("# ", "Project Documentation", <<>>, "title"),
       Line("", "**Generated by SVC Indexer**", <<>>, "title"),
       Line("## ", "Project Information", <<>>, "section"),
       Line("", "- **Path**, **Languages**, **Framework**, **Total Files**, **Total Size**", <<>>, "body") >>
    \o (IF ai = <<>> THEN <<>>
        ELSE << Line("## ", "AI-Generated Overview", <<>>, "section"),
                Line("", ai[1].overview, <<>>, "body") >>)

\* ExportService.generateTableOfContents
generateTableOfContents(index) ==
    << Line("## ", "Table of Contents", <<>>, "section"),
       Line("", "1. [Project Overview](#project-overview) ...", <<>>, "body") >>

\* ExportService.generateProjectOverview
generateProjectOverview(index) ==
    << Line("## ", "Project Overview", <<>>, "section"),
       Line("### ", "Technologies Used", <<>>, "body"),
       Line("### ", "Architecture Patterns", <<>>, "body"),
       Line("### ", "Design Patterns", <<>>, "body"),
       Line("### ", "Test Coverage", <<>>, "body"),
       Line("### ", "Documentation Quality", <<>>, "body") >>

\* ExportService.generateTextStructure
RECURSIVE generateTextStructure(_, _, _)
generateTextStructure(node, depth, maxDepth) ==
    IF depth >= maxDepth THEN <<>>
    ELSE IF node.type = "folder"
    THEN << Line("", "/", node.path, "tree") >>
         \o Flatten([i \in 1..Len(node.children) |->
                       generateTextStructure(node.children[i], depth + 1, maxDepth)])
    ELSE << Line("", " ", node.path, "tree") >>

TextStructureDepth == 3

\* ExportService.generateArchitectureSection
generateArchitectureSection(index, ai) ==
    << Line("## ", "Architecture Analysis", <<>>, "section"),
       Line("### ", "Project Structure", <<>>, "body"),
       Line("", "<fence>", <<>>, "body") >>
    \o (IF index.structure = <<>> THEN <<>>
        ELSE generateTextStructure(index.structure[1], 0, TextStructureDepth))
    \o << Line("", "<fence>", <<>>, "body"),
          Line("### ", "Dependencies", <<>>, "body") >>
    \o (IF ai = <<>> THEN <<>>
        ELSE << Line("### ", "AI Architecture Analysis", <<>>, "body"),
                Line("", ai[1].architecture, <<>>, "body") >>)

\* the first position of every type in the files list: the key order of the
\* object groupFilesByType builds
RECURSIVE typeOrder(_, _)
typeOrder(files, seen) ==
    IF files = <<>> THEN <<>>
    ELSE IF Head(files).type \in seen THEN typeOrder(Tail(files), seen)
    ELSE << Head(files).type >> \o typeOrder(Tail(files), seen \cup {Head(files).type})

\* Array.prototype.sort((a, b) => b.complexity - a.complexity): stable
RECURSIVE insertByComplexity(_, _)
insertByComplexity(sorted, f) ==
    IF sorted = <<>> THEN << f >>
    ELSE IF Head(sorted).complexity >= f.complexity
    THEN << Head(sorted) >> \o insertByComplexity(Tail(sorted), f)
    ELSE << f >> \o sorted

RECURSIVE sortByComplexity(_)
sortByComplexity(files) ==
    IF files = <<>> THEN <<>>
    ELSE insertByComplexity(sortByComplexity(SubSeq(files, 1, Len(files) - 1)), Last(files))

\* ExportService.groupFilesByType: the groups in key order, each sorted
groupFilesByType(files) ==
    LET types == typeOrder(files, {})
    IN  [t \in 1..Len(types) |->
            sortByComplexity(SelectSeq(files, LAMBDA f : f.type = types[t]))]

\* ExportService.generateFileEntry
generateFileEntry(file, ai) ==
    << Line("#### ", "", getFullName(file.path), "entry"),
       Line("", "**Path:** ", file.path, "entry"),
       Line("", "**Type:** " \o file.type, <<>>, "entry"),
       Line("", "**Language:** " \o file.language, <<>>, "entry") >>
    \o (IF file.description # ""
        THEN << Line("", "**Description:** " \o file.description, <<>>, "description") >>
        ELSE <<>>)
    \o (IF ai # <<>> /\ file.path \in ai[1].detailed
        THEN << Line("", "**AI Analysis:** " \o ai[1].detailedDoc, <<>>, "entry") >>
        ELSE <<>>)
    \o (IF file.doc # <<>>
        THEN << Line("", "**Documentation:**", <<>>, "entry"),
                Line("", "<fence>", <<>>, "entry") >>
             \o [i \in 1..Len(file.doc) |->
                   Line(file.doc[i].mark, file.doc[i].text, <<>>, "doc")]
             \o << Line("", "<fence>", <<>>, "entry") >>
        ELSE <<>>)
    \o << Line("", "---", <<>>, "entry") >>

\* ExportService.generateFileDocumentation
generateFileDocumentation(index, ai) ==
    LET groups == groupFilesByType(index.files)
    IN  << Line("## ", "File Documentation", <<>>, "section") >>
        \o Flatten([g \in 1..Len(groups) |->
              << Line("### ", groups[g][1].type \o "s", <<>>, "body") >>
              \o Flatten([i \in 1..Len(groups[g]) |-> generateFileEntry(groups[g][i], ai)])])

\* ExportService.generateAppendices
generateAppendices(index) ==
    << Line("## ", "Dependencies", <<>>, "section"),
       Line("### ", "External Dependencies", <<>>, "body"),
       Line("### ", "Internal Modules", <<>>, "body"),
       Line("## ", "Complexity Analysis", <<>>, "section"),
       Line("### ", "Distribution by Complexity Level", <<>>, "body"),
       Line("### ", "Recommendations", <<>>, "body"),
       Line("", "*Generated by SVC Indexer*", <<>>, "body") >>

\* the unsplit document of generateFullDocumentation
fullDocument(index, ai) ==
    generateTitlePage(index, ai)
    \o generateTableOfContents(index)
    \o generateProjectOverview(index)
    \o generateArchitectureSection(index, ai)
    \o generateFileDocumentation(index, ai)
    \o generateAppendices(index)

\* content.split(/^## /gm): the marker is removed from the line that opens
\* every piece but the first
RECURSIVE splitSections(_, _)
splitSections(doc, current) ==
    IF doc = <<>> THEN << current >>
    ELSE IF Head(doc).mark = "## "
    THEN << current >> \o splitSections(Tail(doc), << [Head(doc) EXCEPT !.mark = ""] >>)
    ELSE splitSections(Tail(doc), Append(current, Head(doc)))

\* '## ' + sections[i]
withMarker(section) == << [Head(section) EXCEPT !.mark = "## " \o @] >> \o Tail(section)

\* a loop that looks at the size of the file being filled, not at what it
\* would be with the next section
startsNewFileLate(newSize, maxSize, currentFile) == byteLength(currentFile) > maxSize

\* if (newSize > maxSize && currentFile.length > 0)
startsNewFile(newSize, maxSize, currentFile) == newSize > maxSize /\ Len(currentFile) > 0

\* the loop of splitDocumentation over sections[i..], with the files pushed
\* so far and the file being filled
RECURSIVE splitLoop(_, _, _, _, _)
splitLoop(sections, i, files, currentFile, maxSize) ==
    IF i > Len(sections)
    THEN IF Len(currentFile) > 0 THEN Append(files, currentFile) ELSE files
    ELSE LET section == withMarker(sections[i])
             newSize == byteLength(currentFile \o section)
         IN  IF startsNewFile(newSize, maxSize, currentFile)
             THEN splitLoop(sections, i + 1, Append(files, currentFile), section, maxSize)
             ELSE splitLoop(sections, i + 1, files, currentFile \o section, maxSize)

\* ExportService.splitDocumentation
splitDocumentation(content, maxSize) ==
    LET sections == splitSections(content, <<>>)
        files == splitLoop(sections, 2, <<>>, sections[1], maxSize)
    IN  IF Len(files) > 0 THEN files ELSE << content >>

\* ExportService.generateFullDocumentation
generateFullDocumentation(index, ai, maxFileSize, splitFiles) ==
    LET fullDoc == fullDocument(index, ai)
    IN  IF splitFiles /\ byteLength(fullDoc) > maxFileSize
        THEN splitDocumentation(fullDoc, maxFileSize)
        ELSE << fullDoc >>

\* ExportService.generateJSONExport (project, analysis and exportInfo left out)
generateJSONExport(index) ==
    [ metadata  |-> index.metadata,
      files     |-> index.files,
      structure |-> index.structure ]

\* the projectIndex the caller holds if groupFilesByType sorted the array it
\* was given
indexSortedInPlace(projectIndex) ==
    [projectIndex EXCEPT !.files = sortByComplexity(@)]

\* the projectIndex the caller holds after a renderer has returned.
\* generateMindmap filters into a new array, groupFilesByCategory and
\* groupFilesByType push the files into arrays of their own and sort those,
\* generateJSONExport spreads every file into a new object: no statement of
\* ExportService assigns to projectIndex or to an object reached from it
indexAfterRender(projectIndex) == projectIndex

(***************************************************************************)
(* The export commands as a state machine.  One action is one step of      *)
(* ExportController / IndexingService between two awaits.                  *)
(***************************************************************************)

VARIABLES
    pc,        \* where the command is
    config,    \* the loaded configuration
    env,       \* the environment: working directory, what fails on disk, the AI
    cmd,       \* the command line options
    scan,      \* the result of scanDirectory: <<>> or <<result>>
    files,     \* filteredFiles: the File objects being indexed
    folders,   \* filteredFolders
    pending,   \* the positions in files whose enrichment promise is not settled
    index,     \* the projectIndex: <<>> or <<index>>
    ai,        \* what generateDetailedDocumentation attached: <<>> or <<texts>>
    mindmap,   \* the mind map generated: <<>> or <<items>>
    docs,      \* the markdown documents generated by generateFullDocumentation
    json,      \* the JSON export generated: <<>> or <<export>>
    written,   \* the names of the output files written
    outputDir, \* TRUE once fs.ensureDir has made the output directory
    error,     \* the error the command ended with, "" for none
    probe      \* what is kept of a first run of indexProject; in SpecCalls the
               \* argument and the result of a function called on its own

vars == << pc, config, env, cmd, scan, files, folders, pending, index, ai,
           mindmap, docs, json, written, outputDir, error, probe >>

\* bounds of the model
MaxPatterns == 1
MaxFaults == 1

\* DEFAULT_CONFIG.general.maxFileSize
DefaultMaxFileSize == 1048576
\* the maxFileSize of the specification's scenario C
SmallMaxFileSize == 10
\* maxDepth of the scan options of indexProject
IndexMaxDepth == 15
\* the default of --max-depth and of --max-size (MB)
DefaultMindmapDepth == 10
DefaultMaxSizeMB == 10
BytesPerMB == 1048576

PatternVocabulary == {P_starJs, S_src, P_srcModels, S_node_modules}

RECURSIVE ListsUpTo(_, _)
ListsUpTo(S, n) ==
    IF n = 0 THEN {<<>>}
    ELSE LET shorter == ListsUpTo(S, n - 1)
         IN  shorter \cup {Append(l, x) : l \in shorter, x \in S}

PatternLists == ListsUpTo(PatternVocabulary, MaxPatterns)

FaultUniverse ==
    {"rootMissing", "rootUnreadable", "modelsUnreadable", "statApp", "readUser", "readBig"}

FaultSets == {F \in SUBSET FaultUniverse : Cardinality(F) <= MaxFaults}

\* two .gitignore files of the project root
G_comment == <<"#", " ", "l", "o", "c", "a", "l">>
G_modelsDir == <<" ", "m", "o", "d", "e", "l", "s", "/", " ">>
G_starPy == <<"*", ".", "p", "y">>

GitignoreModels == << G_comment, <<>>, G_modelsDir >>
GitignorePython == << G_starPy, S_README >>

EnvOf(faults, aiUp, cwd) ==
    [ cwd        |-> cwd,
      rootExists |-> "rootMissing" \notin faults,
      badDirs    |-> (IF "rootMissing" \in faults \/ "rootUnreadable" \in faults
                      THEN {D_root} ELSE {})
                     \cup (IF "modelsUnreadable" \in faults THEN {D_models} ELSE {}),
      badStat    |-> IF "statApp" \in faults THEN {PathJoin(D_root, S_appJs)} ELSE {},
      badRead    |-> (IF "readUser" \in faults THEN {PathJoin(D_models, S_UserJs)} ELSE {})
                     \cup (IF "readBig" \in faults THEN {PathJoin(D_src, S_bigPy)} ELSE {}),
      aiUp       |-> aiUp,
      gitignore  |-> GitignoreModels ]

\* DEFAULT_CONFIG.ollama; a temperature is counted in tenths (0.7 is 7)
DefaultTemperature == 7
DefaultMaxTokens == 512
\* the limits ConfigSchema.validate compares with: 2 (in tenths) and 4096
MaxTemperature == 20
MaxTokensLimit == 4096

\* DEFAULT_CONFIG.exclude
S_vendor == <<"v", "e", "n", "d", "o", "r">>
S_build == <<"b", "u", "i", "l", "d">>
S_dotGit == <<".", "g", "i", "t">>
S_dotSvn == <<".", "s", "v", "n">>
S_dotHg == <<".", "h", "g">>
S_coverage == <<"c", "o", "v", "e", "r", "a", "g", "e">>
S_tmp == <<"t", "m", "p">>
S_temp == <<"t", "e", "m", "p">>

DEFAULT_CONFIG_exclude ==
    << S_node_modules, S_vendor, P_dist, S_build, S_dotGit, S_dotSvn, S_dotHg,
       S_coverage, S_tmp, S_temp >>

\* the configuration file as YAML.parse returns it.  hasProject says whether
\* the file has a project section; rootPath and languages are that section's
ConfigOf(include, exclude, useGitignore, maxFileSize, ignoreHidden) ==
    [ hasProject |-> TRUE, rootPath |-> D_root, languages |-> << "javascript" >>,
      naturalLanguage |-> "en",
      include |-> include, exclude |-> exclude,
      temperature |-> DefaultTemperature, maxTokens |-> DefaultMaxTokens,
      useGitignore |-> useGitignore, maxFileSize |-> maxFileSize,
      ignoreHidden |-> ignoreHidden, merged |-> FALSE ]

\* ConfigSchema.mergeWithDefaults: absolute include patterns inside the project
\* become relative, a missing project section becomes DEFAULT_CONFIG.project,
\* and the default exclude patterns precede the file's
mergeWithDefaults(raw, cwd) ==
    LET relativise(pattern) ==
            IF pattern # <<>> /\ pattern[1] = "/" /\ StartsWith(pattern, raw.rootPath)
            THEN LET relativePath == PathRelative(cwd, raw.rootPath, pattern)
                 IN  IF relativePath = <<>> THEN << "." >> ELSE relativePath
            ELSE pattern
        processedInclude ==
            IF raw.hasProject /\ raw.rootPath # <<>> /\ Len(raw.include) > 0
            THEN [i \in 1..Len(raw.include) |-> relativise(raw.include[i])]
            ELSE raw.include
    IN  [ raw EXCEPT
            !.rootPath = IF raw.hasProject THEN @ ELSE <<>>,
            !.languages = IF raw.hasProject THEN @ ELSE <<>>,
            !.include = processedInclude,
            !.exclude = DEFAULT_CONFIG_exclude \o @,
            !.merged = TRUE ]

ValidNaturalLanguages == {"en", "fr", "es", "de", "it", "pt", "ru", "zh", "ja"}

\* ConfigSchema.validate: the message of the error thrown, "" for none.  The
\* two ollama checks are guarded by the truthiness of the value, and 0 is falsy
validate(cfg) ==
    IF cfg.rootPath = <<>> THEN "Project root path is required"
    ELSE IF Len(cfg.languages) = 0 THEN "At least one programming language must be specified"
    ELSE IF cfg.naturalLanguage \notin ValidNaturalLanguages
    THEN "Invalid natural language"
    ELSE IF cfg.temperature # 0 /\ (cfg.temperature < 0 \/ cfg.temperature > MaxTemperature)
    THEN "Ollama temperature must be between 0 and 2"
    ELSE IF cfg.maxTokens # 0 /\ (cfg.maxTokens < 1 \/ cfg.maxTokens > MaxTokensLimit)
    THEN "Ollama maxTokens must be between 1 and 4096"
    ELSE ""

\* ConfigSchema.loadConfig after the file was read and parsed
loadConfig(raw, cwd) ==
    LET cfg == mergeWithDefaults(raw, cwd)
        message == validate(cfg)
    IN  [ config |-> cfg,
          error  |-> IF message = "" THEN ""
                     ELSE "Failed to load configuration: " \o message ]

MindmapCmd(dry, format) ==
    [ kind |-> "mindmap", dry |-> dry, format |-> format,
      maxDepth |-> DefaultMindmapDepth, typesOnly |-> <<>>, json |-> FALSE, maxSizeMB |-> 0 ]

FullCmd(dry, withJson, maxSizeMB) ==
    [ kind |-> "full", dry |-> dry, format |-> "markdown",
      maxDepth |-> DefaultMindmapDepth, typesOnly |-> <<>>, json |-> withJson,
      maxSizeMB |-> maxSizeMB ]

Cmds ==
    {MindmapCmd(d, f) : d \in BOOLEAN, f \in {"markdown", "mermaid", "dot"}}
    \cup {FullCmd(FALSE, j, m) : j \in BOOLEAN, m \in {0, DefaultMaxSizeMB}}
    \cup {FullCmd(TRUE, FALSE, DefaultMaxSizeMB)}

\* a dry mind map and a full export with the JSON export
TwoCmds == {MindmapCmd(TRUE, "markdown"), FullCmd(FALSE, TRUE, DefaultMaxSizeMB)}

\* runs that vary the include and exclude patterns
InitPatterns ==
    /\ config \in {ConfigOf(inc, exc, FALSE, DefaultMaxFileSize, TRUE) :
                      inc \in PatternLists, exc \in PatternLists}
    /\ env = EnvOf({}, TRUE, D_root)
    /\ cmd \in TwoCmds

\* runs that vary the general section of the configuration
InitGeneral ==
    /\ config \in {ConfigOf(<<>>, << S_node_modules >>, g, m, h) :
                      g \in BOOLEAN, m \in {SmallMaxFileSize, DefaultMaxFileSize},
                      h \in BOOLEAN}
    /\ env \in {[EnvOf({}, TRUE, D_root) EXCEPT !.gitignore = lines] :
                   lines \in {<<>>, GitignoreModels, GitignorePython}}
    /\ cmd \in TwoCmds

\* the values of the ollama section the runs try: below, at and above the
\* limits of validate
Temperatures == {0 - 1, 0, DefaultTemperature, MaxTemperature, MaxTemperature + 1}
TokenCounts == {0 - 1, 0, 1, DefaultMaxTokens, MaxTokensLimit, MaxTokensLimit + 1}

\* runs that vary the project and ollama sections of the configuration file
InitConfig ==
    /\ config \in {[ConfigOf(<<>>, <<>>, FALSE, DefaultMaxFileSize, TRUE) EXCEPT
                        !.hasProject = p, !.rootPath = r, !.languages = l,
                        !.temperature = t, !.maxTokens = k] :
                      p \in BOOLEAN, r \in {<<>>, D_root},
                      l \in {<<>>, << "javascript" >>},
                      t \in Temperatures, k \in TokenCounts}
    /\ env = EnvOf({}, TRUE, D_root)
    /\ cmd \in TwoCmds

\* the values of --types-only the runs try, split at the commas
TypeFilters == { << "model" >>, << "module", "readme" >> }

\* runs that vary the type filter and the format of the mind map
InitTypes ==
    /\ config = ConfigOf(<<>>, << S_node_modules >>, FALSE, DefaultMaxFileSize, TRUE)
    /\ env = EnvOf({}, TRUE, D_root)
    /\ cmd \in {[MindmapCmd(d, f) EXCEPT !.typesOnly = t] :
                   d \in BOOLEAN, f \in {"markdown", "mermaid", "dot", "pdf"},
                   t \in TypeFilters \cup {<<>>}}

\* what is kept of the first of two runs of indexProject with one
\* configuration: the scan result and the index, both <<>> until it has ended
RunOnce == [op |-> "once", scan |-> <<>>, out |-> <<>>]
RunTwice == [op |-> "twice", scan |-> <<>>, out |-> <<>>]

\* runs that index the project twice
InitTwice ==
    /\ config = ConfigOf(<<>>, << S_node_modules >>, FALSE, DefaultMaxFileSize, TRUE)
    /\ env \in {EnvOf(F, TRUE, D_root) : F \in {{}, {"readBig"}, {"modelsUnreadable"}}}
    /\ cmd \in TwoCmds
    /\ probe = RunTwice

\* runs that vary what fails and the command
InitFaults ==
    /\ config = ConfigOf(<<>>, << S_node_modules >>, FALSE, DefaultMaxFileSize, TRUE)
    /\ env \in {EnvOf(F, a, D_root) : F \in FaultSets, a \in BOOLEAN}
    /\ cmd \in Cmds

Init ==
    /\ pc = "start"
    /\ \/ /\ InitPatterns \/ InitGeneral \/ InitConfig \/ InitTypes \/ InitFaults
          /\ probe = RunOnce
       \/ InitTwice
    /\ scan = <<>>
    /\ files = <<>>
    /\ folders = <<>>
    /\ pending = {}
    /\ index = <<>>
    /\ ai = <<>>
    /\ mindmap = <<>>
    /\ docs = <<>>
    /\ json = <<>>
    /\ written = {}
    /\ outputDir = FALSE
    /\ error = ""

\* the options indexProject hands to scanDirectory
scanOptions(cfg) ==
    [ maxDepth |-> IndexMaxDepth, includeFiles |-> TRUE,
      includeHidden |-> ~cfg.ignoreHidden, excludePatterns |-> cfg.exclude ]

\* indexProject is called with { detailed: true } by handleFullExport only
Detailed == cmd.kind = "full"

\* handleMindmapExport / handleFullExport: the configuration is loaded first,
\* and an error of loadConfig ends the command
LoadConfig ==
    /\ pc = "start"
    /\ LET loaded == loadConfig(config, env.cwd)
       IN  IF loaded.error # ""
           THEN /\ pc' = "failed"
                /\ error' = loaded.error
                /\ UNCHANGED config
           ELSE /\ pc' = "loaded"
                /\ config' = loaded.config
                /\ UNCHANGED error
    /\ UNCHANGED << env, cmd, scan, files, folders, pending, index, ai,
                    mindmap, docs, json, written, outputDir >>
    /\ UNCHANGED probe

\* handleMindmapExport / handleFullExport up to the call of indexProject:
\* only the mind map command checks the project path itself
StartExport ==
    /\ pc = "loaded"
    /\ IF cmd.kind = "mindmap" /\ ~env.rootExists
       THEN /\ pc' = "failed"
            /\ error' = "Mind map export failed: Project path does not exist"
       ELSE /\ pc' = "index"
            /\ UNCHANGED error
    /\ UNCHANGED << config, env, cmd, scan, files, folders, pending, index, ai,
                    mindmap, docs, json, written, outputDir >>
    /\ UNCHANGED probe

\* indexProject up to the scan: the root path must exist
CheckRoot ==
    /\ pc = "index"
    /\ IF ~env.rootExists
       THEN /\ pc' = "failed"
            /\ error' = "Full export failed: Project root path does not exist"
       ELSE /\ pc' = "scan"
            /\ UNCHANGED error
    /\ UNCHANGED << config, env, cmd, scan, files, folders, pending, index, ai,
                    mindmap, docs, json, written, outputDir >>
    /\ UNCHANGED probe

\* indexProject: scanDirectory
Scan ==
    /\ pc = "scan"
    /\ scan' = << walkResult(probe.scan,
                             scanDirectory(PathResolve(env.cwd, config.rootPath),
                                           scanOptions(config), env)) >>
    /\ pc' = "filter"
    /\ UNCHANGED << config, env, cmd, files, folders, pending, index, ai,
                    mindmap, docs, json, written, outputDir, error, probe >>

\* indexProject: filterFiles, filterFolders and the start of
\* enrichFilesWithContent (readContent defaults to true)
Filter ==
    /\ pc = "filter"
    /\ LET ignoreFilter == buildIgnoreFilter(config, env)
           filteredFiles == filterFiles(scan[1].files, config, ignoreFilter, env)
       IN  /\ files' = filteredFiles
           /\ folders' = filterFolders(scan[1].folders, config, ignoreFilter, env)
           /\ pending' = 1..Len(filteredFiles)
    /\ pc' = "enrich"
    /\ UNCHANGED << config, env, cmd, scan, index, ai,
                    mindmap, docs, json, written, outputDir, error, probe >>

\* one promise of enrichFilesWithContent settles
EnrichFile(i) ==
    /\ pc = "enrich"
    /\ i \in pending
    /\ files' = [files EXCEPT ![i] = enrichFile(@, Detailed, env)]
    /\ pending' = pending \ {i}
    /\ UNCHANGED << pc, config, env, cmd, scan, folders, index, ai,
                    mindmap, docs, json, written, outputDir, error, probe >>

\* a call of enrichFilesWithContent that goes on without waiting
notAwaited(pendingPositions) == TRUE

\* await Promise.all(promises): every callback catches its errors, so no
\* promise rejects and the await ends when none is pending
promiseAll(pendingPositions) == pendingPositions = {}

\* indexProject after enrichFilesWithContent: analyzeProjectStructure, then
\* the index is built and returned
FinishIndex ==
    /\ pc = "enrich"
    /\ promiseAll(pending)
    /\ index' = << buildIndex(files, folders) >>
    /\ pc' = "indexed"
    /\ UNCHANGED << config, env, cmd, scan, files, folders, pending, ai,
                    mindmap, docs, json, written, outputDir, error, probe >>

\* the index of the first run is kept and indexProject is called again with
\* the same configuration
IndexAgain ==
    /\ pc = "indexed"
    /\ probe.op = "twice"
    /\ probe.out = <<>>
    /\ probe' = [probe EXCEPT !.scan = scan, !.out = index]
    /\ scan' = <<>>
    /\ files' = <<>>
    /\ folders' = <<>>
    /\ pending' = {}
    /\ index' = <<>>
    /\ pc' = "index"
    /\ UNCHANGED << config, env, cmd, ai, mindmap, docs, json, written, outputDir, error >>

\* handleMindmapExport: nothing to export, the command returns
NoFilesFound ==
    /\ pc = "indexed"
    /\ cmd.kind = "mindmap"
    /\ index[1].metadata.totalFiles = 0
    /\ pc' = "done"
    /\ UNCHANGED << config, env, cmd, scan, files, folders, pending, index, ai,
                    mindmap, docs, json, written, outputDir, error, probe >>

\* handleMindmapExport: enhanceProjectIndex, unless the run is dry
Enhance ==
    /\ pc = "indexed"
    /\ cmd.kind = "mindmap"
    /\ index[1].metadata.totalFiles # 0
    /\ ~cmd.dry
    /\ index' = << enhanceProjectIndex(index[1], env.aiUp) >>
    /\ pc' = "enhanced"
    /\ UNCHANGED << config, env, cmd, scan, files, folders, pending, ai,
                    mindmap, docs, json, written, outputDir, error, probe >>

\* handleMindmapExport: generateMindmap, shown on the console in a dry run
RenderMindmap ==
    /\ cmd.kind = "mindmap"
    /\ \/ pc = "enhanced"
       \/ pc = "indexed" /\ cmd.dry /\ index[1].metadata.totalFiles # 0
    /\ mindmap' = << generateMindmap(index[1],
                        [format |-> cmd.format, maxDepth |-> cmd.maxDepth,
                         typesOnly |-> cmd.typesOnly]) >>
    /\ index' = << indexAfterRender(index[1]) >>
    /\ pc' = IF cmd.dry THEN "done" ELSE "write"
    /\ UNCHANGED << config, env, cmd, scan, files, folders, pending, ai,
                    docs, json, written, outputDir, error >>
    /\ UNCHANGED probe

\* handleMindmapExport: the mind map is saved
WriteMindmap ==
    /\ pc = "write"
    /\ outputDir' = TRUE
    /\ written' = written \cup {"mindmap." \o cmd.format}
    /\ pc' = "done"
    /\ UNCHANGED << config, env, cmd, scan, files, folders, pending, index, ai,
                    mindmap, docs, json, error >>
    /\ UNCHANGED probe

\* handleFullExport: generateDetailedDocumentation, unless the run is dry
Document ==
    /\ pc = "indexed"
    /\ cmd.kind = "full"
    /\ ~cmd.dry
    /\ ai' = << generateDetailedDocumentation(index[1], env.aiUp) >>
    /\ pc' = "documented"
    /\ UNCHANGED << config, env, cmd, scan, files, folders, pending, index,
                    mindmap, docs, json, written, outputDir, error, probe >>

\* handleFullExport in a dry run: the output directory is made, then
\* displayFullExportPreview reads projectIndex.languages.join, a TypeError
PreviewFull ==
    /\ pc = "indexed"
    /\ cmd.kind = "full"
    /\ cmd.dry
    /\ outputDir' = TRUE
    /\ pc' = "failed"
    /\ error' = "Full export failed: Cannot read properties of undefined"
    /\ UNCHANGED << config, env, cmd, scan, files, folders, pending, index, ai,
                    mindmap, docs, json, written >>
    /\ UNCHANGED probe

\* the file names generateFullExports gives the markdown parts
markdownNames(n) ==
    IF n > 1 THEN {"full_documentation-" \o ToString(i) \o ".md" : i \in 1..n}
    ELSE {"full_documentation.md"}

\* handleFullExport: the output directory is made and generateFullExports
\* writes the markdown parts, the API specification and the JSON export
ExportFull ==
    /\ pc = "documented"
    /\ LET parts == generateFullDocumentation(index[1], ai, cmd.maxSizeMB * BytesPerMB, TRUE)
       IN  /\ docs' = parts
           /\ json' = IF cmd.json THEN << generateJSONExport(index[1]) >> ELSE <<>>
           /\ written' = written \cup markdownNames(Len(parts)) \cup {"api_spec.yml"}
                            \cup (IF cmd.json THEN {"project_data.json"} ELSE {})
    /\ index' = << indexAfterRender(index[1]) >>
    /\ outputDir' = TRUE
    /\ pc' = "done"
    /\ UNCHANGED << config, env, cmd, scan, files, folders, pending, ai,
                    mindmap, error >>
    /\ UNCHANGED probe

Next ==
    \/ LoadConfig
    \/ StartExport
    \/ CheckRoot
    \/ Scan
    \/ Filter
    \/ \E i \in 1..Len(files) : EnrichFile(i)
    \/ FinishIndex
    \/ IndexAgain
    \/ NoFilesFound
    \/ Enhance
    \/ RenderMindmap
    \/ WriteMindmap
    \/ Document
    \/ PreviewFull
    \/ ExportFull

Spec == Init /\ [][Next]_vars

(***************************************************************************)
(* Functions called on their own: the classifier of File, the analyses of *)
(* IndexingService and the path filters, applied to arguments the project *)
(* on disk does not offer                                                  *)
(***************************************************************************)

S_controllers == <<"c", "o", "n", "t", "r", "o", "l", "l", "e", "r", "s">>
S_tests == <<"t", "e", "s", "t", "s">>
S_services == <<"s", "e", "r", "v", "i", "c", "e", "s">>
S_utils == <<"u", "t", "i", "l", "s">>
S_views == <<"v", "i", "e", "w", "s">>
N_UserControllerJs == <<"U", "s", "e", "r", "C", "o", "n", "t", "r", "o", "l", "l", "e", "r", ".", "j", "s">>
N_userTestJs == <<"u", "s", "e", "r", ".", "t", "e", "s", "t", ".", "j", "s">>
N_testConfigJs == <<"t", "e", "s", "t", ".", "c", "o", "n", "f", "i", "g", ".", "j", "s">>
N_packageJson == <<"p", "a", "c", "k", "a", "g", "e", ".", "j", "s", "o", "n">>
N_UserServiceTs == <<"U", "s", "e", "r", "S", "e", "r", "v", "i", "c", "e", ".", "t", "s">>
N_ButtonJsx == <<"B", "u", "t", "t", "o", "n", ".", "j", "s", "x">>
N_helperPy == <<"h", "e", "l", "p", "e", "r", ".", "p", "y">>
N_styleCss == <<"s", "t", "y", "l", "e", ".", "c", "s", "s">>
N_indexHtml == <<"i", "n", "d", "e", "x", ".", "h", "t", "m", "l">>
N_runSh == <<"r", "u", "n", ".", "s", "h">>
N_dataJson == <<"d", "a", "t", "a", ".", "j", "s", "o", "n">>
N_notesTxt == <<"n", "o", "t", "e", "s", ".", "t", "x", "t">>
N_mainGo == <<"m", "a", "i", "n", ".", "g", "o">>

\* no export command runs
Idle ==
    /\ pc = "probe"
    /\ config = ConfigOf(<<>>, <<>>, FALSE, DefaultMaxFileSize, TRUE)
    /\ env = EnvOf({}, TRUE, D_root)
    /\ cmd = MindmapCmd(TRUE, "markdown")
    /\ scan = <<>>
    /\ files = <<>>
    /\ folders = <<>>
    /\ pending = {}
    /\ index = <<>>
    /\ ai = <<>>
    /\ mindmap = <<>>
    /\ docs = <<>>
    /\ json = <<>>
    /\ written = {}
    /\ outputDir = FALSE
    /\ error = ""

Resting ==
    UNCHANGED << pc, config, env, cmd, scan, files, folders, pending, index, ai,
                 mindmap, docs, json, written, outputDir, error >>

ClassifyDirs ==
    { D_root, D_models, PathJoin(D_src, S_controllers), PathJoin(D_src, S_services),
      PathJoin(D_root, S_tests), PathJoin(D_root, S_utils) }

ClassifyNames ==
    { N_UserControllerJs, N_userTestJs, N_testConfigJs, N_packageJson,
      N_UserServiceTs, N_ButtonJsx, N_helperPy, N_styleCss, N_indexHtml, N_runSh,
      N_dataJson, N_notesTxt, N_mainGo, S_UserJs, S_README, S_appJs, S_logoPng }

InitClassify ==
    probe \in {[op |-> "classify", path |-> PathJoin(d, n), out |-> <<>>] :
                  d \in ClassifyDirs, n \in ClassifyNames}

\* createFileFromPath: new File({ path, ... }) and file.type = file.autoDetectType()
Classify ==
    /\ probe.op = "classify"
    /\ probe.out = <<>>
    /\ probe' = [probe EXCEPT
                    !.out = << [NewFile(probe.path, 0) EXCEPT
                                  !.type = autoDetectType(probe.path)] >>]
    /\ Resting

N_Views == <<"V", "i", "e", "w", "s">>
N_userService == <<"u", "s", "e", "r", "-", "s", "e", "r", "v", "i", "c", "e">>
N_api == <<"a", "p", "i">>

\* a list of the elements of a set
RECURSIVE SeqOf(_)
SeqOf(set) ==
    IF set = {} THEN <<>>
    ELSE LET x == CHOOSE y \in set : TRUE
         IN  << x >> \o SeqOf(set \ {x})

ArchitectureFolders ==
    { PathJoin(D_root, n) :
        n \in { S_models, N_Views, S_controllers, S_services, A_repositories,
                A_entities, A_usecases, N_userService, S_src } }
    \cup { PathJoin(PathJoin(D_root, N_api), S_services) }

InitArchitecture ==
    probe \in {[op |-> "architecture",
                folders |-> [i \in 1..Cardinality(paths) |-> NewFolder(SeqOf(paths)[i], 1)],
                out |-> <<>>] :
                  paths \in SUBSET ArchitectureFolders}

\* analyzeProjectStructure: this.detectArchitecturePattern(folders)
DetectArchitecture ==
    /\ probe.op = "architecture"
    /\ probe.out = <<>>
    /\ probe' = [probe EXCEPT !.out = << detectArchitecturePattern(probe.folders) >>]
    /\ Resting

N_mysrc == <<"m", "y", "s", "r", "c">>
N_srcutilJs == <<"s", "r", "c", "u", "t", "i", "l", ".", "j", "s">>

\* files of a project whose folder and file names contain "src" inside a name
FilterPaths ==
    { PathJoin(D_root, S_appJs),
      PathJoin(D_src, S_appJs),
      PathJoin(D_models, S_UserJs),
      PathJoin(PathJoin(D_root, N_mysrc), S_appJs),
      PathJoin(PathJoin(D_root, S_lib), N_srcutilJs),
      PathJoin(PathJoin(D_root, S_node_modules), S_indexJs) }

InitFilter ==
    probe \in {[op |-> "filter", path |-> path,
                config |-> loadConfig(ConfigOf(inc, exc, FALSE, DefaultMaxFileSize, TRUE),
                                      D_root).config,
                out |-> <<>>] :
                  path \in FilterPaths, inc \in PatternLists, exc \in PatternLists}

\* filterFiles: the callback of files.filter for one file
FilterFile ==
    /\ probe.op = "filter"
    /\ probe.out = <<>>
    /\ probe' = [probe EXCEPT
                    !.out = << fileFilter(probe.path, probe.config,
                                          buildIgnoreFilter(probe.config, env), env) >>]
    /\ Resting

\* the longest list of import captures of a file
MaxImports == 2

ImportVocabulary == {I_os, I_requests, I_dotUtil, I_absMod}

\* what the import patterns capture in a file; threw marks a file whose
\* detailed analysis failed and left it without metadata
ImportCaptures ==
    {[threw |-> FALSE, imports |-> l] : l \in ListsUpTo(ImportVocabulary, MaxImports)}
    \cup {[threw |-> TRUE, imports |-> <<>>]}

InitDependencies ==
    probe \in {[op |-> "dependencies", captures |-> << a, b >>, out |-> <<>>] :
                  a \in ImportCaptures, b \in ImportCaptures}

\* the File objects of two files after performDetailedAnalysis
AnalysedFiles(captures) ==
    [i \in 1..Len(captures) |->
        LET file == NewFile(PathJoin(D_src, IF i = 1 THEN S_appJs ELSE S_bigPy), 0)
        IN  IF captures[i].threw THEN file
            ELSE LET content == [C_text EXCEPT !.imports = captures[i].imports]
                 IN  [file EXCEPT !.metadata =
                         << [ imports |-> extractImports(content, file.language),
                              dependencies |->
                                  extractDependencies(content, file.language) ] >>]]

\* analyzeProjectStructure: this.analyzeDependencies(files)
AnalyzeDependencies ==
    /\ probe.op = "dependencies"
    /\ probe.out = <<>>
    /\ probe' = [probe EXCEPT
                    !.out = << analyzeDependencies(AnalysedFiles(probe.captures)) >>]
    /\ Resting

\* file contents around the thresholds of the two scoring functions: line
\* counts, counts of the keyword if, brace nesting depths and idioms
ScoredContents ==
    {[C_text EXCEPT !.lines = l, !.kw = [k \in {"if"} |-> n], !.nest = d,
                    !.hasAsync = a, !.hasPromise = b, !.hasRegex = b] :
        l \in {50, 150, 300, 600, 1200}, n \in {0, 15, 30, 60, 120},
        d \in {0, 4, 6}, a \in BOOLEAN, b \in BOOLEAN}

InitComplexity ==
    probe \in {[op |-> "complexity", content |-> c, language |-> l,
                detailed |-> d, out |-> <<>>] :
                  c \in ScoredContents, l \in {"python", "javascript"}, d \in BOOLEAN}

\* the complexity a file has after enrichFilesWithContent: that of
\* File.calculateComplexity, which performDetailedAnalysis replaces by that of
\* calculateAdvancedComplexity unless it throws
ScoreFile ==
    /\ probe.op = "complexity"
    /\ probe.out = <<>>
    /\ LET basic == calculateComplexity(probe.content.lines, probe.content)
           advanced == calculateAdvancedComplexity(probe.content, probe.language)
       IN  probe' = [probe EXCEPT
                        !.out = << IF probe.detailed /\ ~advanced.threw
                                   THEN advanced.value ELSE basic >>]
    /\ Resting

\* the deepest maxDepth scanDirectory is called with on its own
MaxWalkDepth == 3

InitWalk ==
    probe \in {[op |-> "walk", maxDepth |-> m, includeHidden |-> h, out |-> <<>>] :
                  m \in 0..MaxWalkDepth, h \in BOOLEAN}

\* FileSystemService.scanDirectory(rootPath, { maxDepth, includeHidden }) on
\* the project, with the defaults includeFiles = true and excludePatterns = []
WalkTree ==
    /\ probe.op = "walk"
    /\ probe.out = <<>>
    /\ probe' = [probe EXCEPT
                    !.out = << scanDirectory(D_root,
                                  [ maxDepth |-> probe.maxDepth, includeFiles |-> TRUE,
                                    includeHidden |-> probe.includeHidden,
                                    excludePatterns |-> <<>> ],
                                  env) >>]
    /\ Resting

\* root directories a project can be placed under: two plain ones, one
\* named test and one named config
R_test == <<"/", "t", "e", "s", "t">>
R_config == <<"/", "c", "o", "n", "f", "i", "g">>
Roots == {S_p, S_w, R_test, R_config}

\* the most files of a project placed under the roots
MaxTreeFiles == 2

\* root-relative paths of files of a project
TreePaths ==
    { S_README, N_packageJson, S_appJs, PathJoin(S_src, S_bigPy),
      PathJoin(PathJoin(S_src, S_models), S_UserJs),
      PathJoin(PathJoin(S_src, S_controllers), N_UserControllerJs),
      PathJoin(S_tests, N_userTestJs) }

InitRoots ==
    probe \in {[op |-> "roots", tree |-> t, out |-> <<>>] :
                  t \in ListsUpTo(TreePaths, MaxTreeFiles)}

\* the File objects of a tree placed under a root: createFileFromPath gives
\* the File the joined path and the type of autoDetectType
FilesUnder(root, tree) ==
    [i \in 1..Len(tree) |->
        [NewFile(PathJoin(root, tree[i]), 0) EXCEPT
            !.type = autoDetectType(PathJoin(root, tree[i]))]]

\* one tree walked and analysed under each root: the types of its files and
\* calculateTestCoverage of them
IndexUnderRoots ==
    /\ probe.op = "roots"
    /\ probe.out = <<>>
    /\ probe' = [probe EXCEPT
                    !.out = << [root \in Roots |->
                                  LET made == FilesUnder(root, probe.tree)
                                  IN  [ types |-> [i \in 1..Len(made) |-> made[i].type],
                                        testCoverage |-> calculateTestCoverage(made) ]] >>]
    /\ Resting

\* the longest document splitDocumentation is called with on its own
MaxDocLines == 4

\* lines of a document: a title line, the heading of a top-level section, a
\* short and a long line of text
DocLines ==
    { Line("# ", "T", <<>>, "title"), Line("## ", "S", <<>>, "section"),
      Line("", "b", <<>>, "body"), Line("", "a long line", <<>>, "body") }

\* byte budgets below, between and above the sizes of these documents
Budgets == {0, 6, 10, 14, 20, 30}

InitSplit ==
    probe \in {[op |-> "split", content |-> c, maxSize |-> m, out |-> <<>>] :
                  c \in ListsUpTo(DocLines, MaxDocLines), m \in Budgets}

\* ExportService.splitDocumentation(content, maxSize)
SplitDocument ==
    /\ probe.op = "split"
    /\ probe.out = <<>>
    /\ probe' = [probe EXCEPT !.out = << splitDocumentation(probe.content, probe.maxSize) >>]
    /\ Resting

InitCalls ==
    Idle /\ (InitClassify \/ InitArchitecture \/ InitFilter \/ InitDependencies
             \/ InitComplexity \/ InitWalk \/ InitSplit \/ InitRoots)

NextCalls ==
    \/ Classify
    \/ DetectArchitecture
    \/ FilterFile
    \/ AnalyzeDependencies
    \/ ScoreFile
    \/ WalkTree
    \/ SplitDocument
    \/ IndexUnderRoots

SpecCalls == InitCalls /\ [][NextCalls]_vars

(***************************************************************************)
(* Promises started together: the callbacks of Array.map in AIService and  *)
(* in enrichFilesWithContent run up to their first await when map calls    *)
(* them, so every request is started before the promises are awaited.      *)
(* probe holds the promises; the export command rests.                     *)
(***************************************************************************)

\* the most promises one call of map makes
MaxCalls == 6

\* the batch sizes enhanceProjectIndex and generateDetailedDocumentation give
\* processBatched
EnhanceBatchSize == 5
DocumentBatchSize == 3

\* the promises of AIService before map: quiet are the positions whose file
\* or folder has a description already, so that the callback makes no call
InitBatched ==
    probe \in {[op |-> "batched", caller |-> c.caller, batchSize |-> c.batchSize,
                count |-> n, quiet |-> q, inFlight |-> {}, settled |-> {},
                i |-> 0, at |-> "map"] :
                  c \in {[caller |-> "enhanceProjectIndex", batchSize |-> EnhanceBatchSize],
                         [caller |-> "generateDetailedDocumentation",
                          batchSize |-> DocumentBatchSize]},
                  n \in 0..MaxCalls,
                  q \in {{}, {1}}}

\* projectIndex.files.map(async (file) => ...): each callback runs until the
\* await of its callOllama, whose axios.post has sent the request; a callback
\* that makes no call returns a settled promise.  The detailed documentation
\* is asked for every file map is given.
MapCalls ==
    /\ probe.op = "batched"
    /\ probe.at = "map"
    /\ LET quiet == IF probe.caller = "enhanceProjectIndex"
                    THEN probe.quiet \cap (1..probe.count) ELSE {}
       IN  probe' = [probe EXCEPT !.inFlight = (1..probe.count) \ quiet,
                                  !.settled = quiet,
                                  !.at = "batch"]
    /\ Resting

\* callOllama answers or fails; the callback ends and its promise settles
SettleCall(k) ==
    /\ probe.op = "batched"
    /\ k \in probe.inFlight
    /\ probe' = [probe EXCEPT !.inFlight = @ \ {k}, !.settled = @ \cup {k}]
    /\ Resting

\* the positions of promises.slice(i, i + batchSize)
batchAt(i, batchSize, count) == {k \in 1..count : i < k /\ k <= i + batchSize}

\* processBatched: await Promise.allSettled(batch), then the delay if another
\* batch follows, else the loop ends
AwaitBatch ==
    /\ probe.op = "batched"
    /\ probe.at = "batch"
    /\ IF probe.i < probe.count
       THEN /\ batchAt(probe.i, probe.batchSize, probe.count) \subseteq probe.settled
            /\ probe' = IF probe.i + probe.batchSize < probe.count
                        THEN [probe EXCEPT !.at = "delay"]
                        ELSE [probe EXCEPT !.i = @ + probe.batchSize, !.at = "done"]
       ELSE probe' = [probe EXCEPT !.at = "done"]
    /\ Resting

\* processBatched: the timer of one second has fired
DelayElapsed ==
    /\ probe.op = "batched"
    /\ probe.at = "delay"
    /\ probe' = [probe EXCEPT !.i = @ + probe.batchSize, !.at = "batch"]
    /\ Resting

\* the files enrichFilesWithContent is given, before map
InitEnrich ==
    probe \in {[op |-> "enrich", count |-> n, detailed |-> d,
                phase |-> [k \in 1..n |-> "created"], at |-> "map"] :
                  n \in 0..MaxCalls, d \in BOOLEAN}

\* files.map(async (file) => ...): each callback runs until the await of
\* fs.stat in createFileFromPath
MapEnrich ==
    /\ probe.op = "enrich"
    /\ probe.at = "map"
    /\ probe' = [probe EXCEPT !.phase = [k \in 1..probe.count |-> "stat"],
                              !.at = "await"]
    /\ Resting

\* createFileFromPath: fs.stat has answered; a file that can be read goes on
\* to fs.readFile, any other ends the callback
StatSettles(k) ==
    /\ probe.op = "enrich"
    /\ k \in 1..probe.count
    /\ probe.phase[k] = "stat"
    /\ \E kept \in BOOLEAN :
          probe' = [probe EXCEPT !.phase[k] = IF kept THEN "read" ELSE "settled"]
    /\ Resting

\* createFileFromPath: fs.readFile has answered or failed; either way a File
\* is returned, and performDetailedAnalysis reads the file again if detailed
ReadSettles(k) ==
    /\ probe.op = "enrich"
    /\ k \in 1..probe.count
    /\ probe.phase[k] = "read"
    /\ probe' = [probe EXCEPT !.phase[k] = IF probe.detailed THEN "analysis" ELSE "settled"]
    /\ Resting

\* performDetailedAnalysis: its fs.readFile has answered or failed
AnalysisSettles(k) ==
    /\ probe.op = "enrich"
    /\ k \in 1..probe.count
    /\ probe.phase[k] = "analysis"
    /\ probe' = [probe EXCEPT !.phase[k] = "settled"]
    /\ Resting

\* enrichFilesWithContent: await Promise.all(promises); no callback rejects
AwaitAll ==
    /\ probe.op = "enrich"
    /\ probe.at = "await"
    /\ \A k \in 1..probe.count : probe.phase[k] = "settled"
    /\ probe' = [probe EXCEPT !.at = "done"]
    /\ Resting

InitPromises == Idle /\ (InitBatched \/ InitEnrich)

NextPromises ==
    \/ MapCalls
    \/ \E k \in 1..MaxCalls : SettleCall(k)
    \/ AwaitBatch
    \/ DelayElapsed
    \/ MapEnrich
    \/ \E k \in 1..MaxCalls : StatSettles(k)
    \/ \E k \in 1..MaxCalls : ReadSettles(k)
    \/ \E k \in 1..MaxCalls : AnalysisSettles(k)
    \/ AwaitAll

SpecPromises == InitPromises /\ [][NextPromises]_vars

(***************************************************************************)
(* What the claims speak about                                             *)
(***************************************************************************)

\* the path of a disk entry relative to the project root
RelOf(p) == PathRelative(env.cwd, config.rootPath, p)

\* the relative paths of everything on the modelled disk
DiskRelativePaths == {RelOf(p) : p \in FilePaths \cup (DirPaths \ {D_root})}

SeqRange(q) == {q[i] : i \in 1..Len(q)}

PathsOf(q) == {q[i].path : i \in 1..Len(q)}

\* the path has a segment named node_modules below the project root
UnderNodeModules(p) == S_node_modules \in SeqRange(Segments(RelOf(p)))

ExcludesNodeModules == S_node_modules \in SeqRange(config.exclude)

Indexed == index # <<>>

StructurePaths ==
    IF Indexed /\ index[1].structure # <<>>
    THEN PathsOf(structureNodes(index[1].structure[1])) ELSE {}

\* every path a renderer has put into an output
RenderedPaths ==
    (IF mindmap # <<>> THEN PathsOf(mindmap[1]) ELSE {})
    \cup UNION {{docs[k][i].ref : i \in 1..Len(docs[k])} : k \in 1..Len(docs)}
    \cup (IF json # <<>>
          THEN PathsOf(json[1].files)
               \cup (IF json[1].structure # <<>>
                     THEN PathsOf(structureNodes(json[1].structure[1])) ELSE {})
          ELSE {})

\* C1: after any indexing run, basic or detailed, with or without failing
\* reads and analyses, every file of the index (and every File object of
\* the run) has an integer complexity between 1 and 10.
C1_ComplexityInRange ==
    /\ \A i \in 1..Len(files) : files[i].complexity \in 1..10
    /\ Indexed => \A i \in 1..Len(index[1].files) : index[1].files[i].complexity \in 1..10

\* a detailed run is indexed in which the analysis of one file succeeded
\* with the top score, the analysis of another threw and a read failed
C1_Witness ==
    /\ Indexed
    /\ Detailed
    /\ env.badRead # {}
    /\ \E i \in 1..Len(files) : files[i].metadata # <<>> /\ files[i].complexity = 10
    /\ \E i \in 1..Len(files) : files[i].metadata = <<>> /\ files[i].path \notin env.badRead

\* C2: a path that matches an exclude pattern is excluded, also when it
\* matches an include pattern: shouldIncludePath answers false for it, and
\* no file or folder that the exclude patterns ignore is left by
\* filterFiles / filterFolders.
C2_ExcludeDominant ==
    /\ \A p \in DiskRelativePaths :
          AnyMatch(p, config.exclude) =>
              ~shouldIncludePath(p, includeRelative(config, env), config.exclude)
    /\ pc \in {"enrich", "indexed"} =>
          /\ \A i \in 1..Len(files) : ~Ignores(config.exclude, RelOf(files[i].path))
          /\ \A i \in 1..Len(folders) :
                folders[i].path = D_root \/ ~Ignores(config.exclude, RelOf(folders[i].path))

\* the filters have run on a scanned file that matches an include and an
\* exclude pattern at once
C2_Witness ==
    /\ pc = "enrich"
    /\ \E i \in 1..Len(scan[1].files) :
          LET p == RelOf(scan[1].files[i].path)
          IN  /\ AnyMatch(p, config.exclude)
              /\ Ignores(config.exclude, p)
              /\ AnyMatch(p, includeRelative(config, env))
              /\ scan[1].files[i].path \notin PathsOf(files)

\* C3: with node_modules among the exclude patterns the walker records
\* nothing at or below a directory named node_modules, at any depth, and no
\* such path is in the file list, the structure tree or a rendered output.
C3_NodeModulesPruned ==
    ExcludesNodeModules =>
        /\ scan # <<>> =>
              \A p \in PathsOf(scan[1].files) \cup PathsOf(scan[1].folders) :
                  ~UnderNodeModules(p)
        /\ \A p \in PathsOf(files) \cup PathsOf(folders) : ~UnderNodeModules(p)
        /\ Indexed => \A p \in PathsOf(index[1].files) \cup StructurePaths :
                          ~UnderNodeModules(p)
        /\ \A p \in RenderedPaths : ~UnderNodeModules(p)

\* a full export with the JSON export is written for a project that has
\* node_modules at the root and below src
C3_Witness ==
    /\ ExcludesNodeModules
    /\ pc = "done"
    /\ docs # <<>>
    /\ json # <<>>
    /\ PathJoin(D_src, S_bigPy) \in RenderedPaths
    /\ \E p \in FilePaths : Len(Segments(RelOf(p))) = 3 /\ UnderNodeModules(p)

\* the Folder objects of a scan result that list a path as a subfolder
ParentsOf(path) ==
    {i \in 1..Len(scan[1].folders) : path \in SeqRange(scan[1].folders[i].subfolders)}

\* C4: in the result of scanDirectory the root folder has depth 0, a
\* subfolder has the depth of its parent plus one, no folder is recorded
\* twice, and every folder but the root is a subfolder of exactly one
\* folder, listed there once; depths growing along the subfolder lists,
\* there is no cycle.
C4_FolderTree ==
    scan # <<>> =>
        LET fs == scan[1].folders
        IN  /\ fs[1].path = PathResolve(env.cwd, config.rootPath)
            /\ fs[1].depth = 0
            /\ ParentsOf(fs[1].path) = {}
            /\ \A i, j \in 1..Len(fs) : fs[i].path = fs[j].path => i = j
            /\ \A i \in 2..Len(fs) :
                  /\ Cardinality(ParentsOf(fs[i].path)) = 1
                  /\ \A k \in ParentsOf(fs[i].path) :
                        /\ fs[i].depth = fs[k].depth + 1
                        /\ Cardinality({n \in 1..Len(fs[k].subfolders) :
                                           fs[k].subfolders[n] = fs[i].path}) = 1
            /\ \A i \in 1..Len(fs) :
                  \A n \in 1..Len(fs[i].subfolders) : fs[i].subfolders[n] \in PathsOf(fs)

\* a scan has recorded a folder two levels below the root
C4_Witness ==
    /\ scan # <<>>
    /\ \E i \in 1..Len(scan[1].folders) : scan[1].folders[i].depth = 2

\* how often a node of the given type and path occurs in a structure
Occurrences(structure, type, path) ==
    IF structure = <<>> THEN 0
    ELSE LET nodes == structureNodes(structure[1])
         IN  Cardinality({n \in 1..Len(nodes) :
                             nodes[n].type = type /\ nodes[n].path = path})

\* C5: the structure of the JSON export holds every file and every folder
\* of the index's flattened lists exactly once.
C5_StructureComplete ==
    json # <<>> =>
        /\ \A i \in 1..Len(json[1].files) :
              Occurrences(json[1].structure, "file", json[1].files[i].path) = 1
        /\ \A i \in 1..Len(index[1].folders) :
              Occurrences(json[1].structure, "folder", index[1].folders[i].path) = 1

\* the document generateFullDocumentation splits
Unsplit == fullDocument(index[1], ai)

\* C6: with a byte budget smaller than the document,
\* generateFullDocumentation returns at least 2 parts, every part after the
\* first begins with the marker of a top-level section and at the heading
\* of one (no boundary inside a section), and the parts in order make up
\* the unsplit document.
C6_SplitAtSections ==
    (docs # <<>> /\ cmd.maxSizeMB * BytesPerMB < byteLength(Unsplit)) =>
        /\ Len(docs) >= 2
        /\ \A k \in 2..Len(docs) :
              /\ Head(docs[k]).mark = "## "
              /\ Head(docs[k]).role = "section"
        /\ Flatten(docs) = Unsplit

\* C7: a file larger than the configured maxFileSize is not in the file
\* list of the index and adds nothing to the size total.
C7_LargeFilesSkipped ==
    Indexed =>
        /\ \A i \in 1..Len(index[1].files) : index[1].files[i].size <= config.maxFileSize
        /\ index[1].metadata.totalSize =
              SumSizes(SelectSeq(index[1].files, LAMBDA f : f.size <= config.maxFileSize))

\* the description createFileFromPath computes for a file it can read
HeuristicDescription(path) ==
    createFileFromPath(path, TRUE, [env EXCEPT !.badRead = {}])[1].description

Readable(path) == path \notin env.badRead

AllDocLines == Flatten(docs)

RootFails ==
    ~env.rootExists \/ PathResolve(env.cwd, config.rootPath) \in env.badDirs

\* C9: when the project root is missing or cannot be read, the indexing
\* run fails: no index is returned, no renderer is run and no output is
\* written.
C9_FatalRootFailure ==
    RootFails =>
        /\ ~Indexed
        /\ pc # "done"
        /\ mindmap = <<>>
        /\ docs = <<>>
        /\ json = <<>>
        /\ written = {}

\* the path lies below the directory
Below(p, d) == StartsWith(p, d \o <<"/">>)

\* the scan of the same tree when nothing fails
CleanScan ==
    scanDirectory(PathResolve(env.cwd, config.rootPath), scanOptions(config),
                  [env EXCEPT !.badDirs = {}, !.badStat = {}])

\* C10: a directory that cannot be read and a file that cannot be
\* processed are skipped with a warning each; scanDirectory returns, and it
\* records every other entry that is not below a failed directory.
C10_WalkSurvivesFailures ==
    pc = "filter" =>
        LET r == scan[1]
            lostDir(p) == \E d \in env.badDirs : Below(p, d)
        IN  /\ PathsOf(r.files) =
                  {p \in PathsOf(CleanScan.files) : p \notin env.badStat /\ ~lostDir(p)}
            /\ PathsOf(r.folders) = {p \in PathsOf(CleanScan.folders) : ~lostDir(p)}
            /\ SeqRange(r.warnings) =
                  {p \in PathsOf(CleanScan.folders) : p \in env.badDirs /\ ~lostDir(p)}
                  \cup {p \in FilePaths : p \in env.badStat /\ ~lostDir(p)}

\* a scan has met a subdirectory it could not read, after one file and
\* before another, and has recorded both
C10_Witness ==
    /\ pc = "filter"
    /\ D_models \in env.badDirs
    /\ D_models \in SeqRange(scan[1].warnings)
    /\ D_models \in PathsOf(scan[1].folders)
    /\ PathJoin(D_src, S_bigPy) \in PathsOf(scan[1].files)
    /\ PathJoin(D_root, S_appJs) \in PathsOf(scan[1].files)
    /\ PathJoin(D_models, S_UserJs) \notin PathsOf(scan[1].files)

\* what C11 calls a configuration with a missing required field or an
\* out-of-range value
MissingRequiredField(cfg) ==
    ~cfg.hasProject \/ cfg.rootPath = <<>> \/ Len(cfg.languages) = 0

OutOfRange(cfg) ==
    \/ cfg.temperature < 0 \/ cfg.temperature > MaxTemperature
    \/ cfg.maxTokens < 1 \/ cfg.maxTokens > MaxTokensLimit

\* C11: a configuration with a missing required field or an out-of-range
\* ollama value makes loadConfig fail, and the export command ends before any
\* directory is scanned or indexed.
C11_InvalidConfigAborts ==
    (MissingRequiredField(config) \/ OutOfRange(config)) =>
        /\ pc \in {"start", "failed"}
        /\ scan = <<>>
        /\ index = <<>>
        /\ pc = "failed" => error # ""

\* a call of the classifier that has returned
Classified == probe.op = "classify" /\ probe.out # <<>>

MatchingRules(filePath) ==
    LET rules == typeRules(filePath)
    IN  {i \in 1..Len(rules) : rules[i].hit}

\* C12: the semantic type is the tag of the earliest matching rule in the
\* order config, readme, test, controller, service, model, component,
\* utility, style, template, script, data, and module (known programming
\* language) or other when no rule matches; a name with both "config" and
\* "test" is config, src/controllers/UserController.js is a javascript
\* controller, user.test.js is a test.
C12_FirstRuleWins ==
    Classified =>
        LET file     == probe.out[1]
            rules    == typeRules(probe.path)
            matching == MatchingRules(probe.path)
            fileName == getFullName(probe.path)
        IN  /\ [i \in 1..Len(rules) |-> rules[i].tag] =
                  << "config", "readme", "test", "controller", "service", "model",
                     "component", "utility", "style", "template", "script", "data" >>
            /\ matching # {} =>
                  \E i \in matching : /\ file.type = rules[i].tag
                                       /\ \A j \in matching : i <= j
            /\ matching = {} =>
                  file.type =
                      IF file.language \in {"javascript", "typescript", "python",
                                            "php", "java", "csharp"}
                      THEN "module" ELSE "other"
            /\ Includes(ToLower(fileName), K_config) /\ Includes(ToLower(fileName), K_test)
                  => file.type = "config"
            /\ probe.path = PathJoin(PathJoin(D_src, S_controllers), N_UserControllerJs)
                  => file.type = "controller" /\ file.language = "javascript"
            /\ fileName = N_userTestJs => file.type = "test"

\* test.config.js, which matches the config rule and the test rule, was classified
C12_Witness ==
    /\ Classified
    /\ getFullName(probe.path) = N_testConfigJs
    /\ Cardinality(MatchingRules(probe.path)) >= 2
    /\ probe.out[1].type = "config"

\* the lower-cased names of the folders handed to detectArchitecturePattern
ProbedFolderNames ==
    {ToLower(Last(SplitOn(probe.folders[i].path, "/"))) : i \in 1..Len(probe.folders)}

ArchitectureDetected == probe.op = "architecture" /\ probe.out # <<>>

\* C13: detectArchitecturePattern returns a non-empty list; the list has MVC
\* exactly when folders named models, views and controllers are all present
\* (names compared in lower case); several labels may stand together; the
\* list has Unknown exactly when none of the four rules matches, and then
\* nothing else.
C13_ArchitectureLabels ==
    ArchitectureDetected =>
        LET labels  == SeqRange(probe.out[1])
            names   == ProbedFolderNames
            mvc     == {A_models, A_views, A_controllers} \subseteq names
            layered == {A_services, A_repositories} \subseteq names
            clean   == {A_entities, A_usecases} \subseteq names
            micro   == Cardinality({i \in 1..Len(probe.folders) :
                            Includes(ToLower(Last(SplitOn(probe.folders[i].path, "/"))),
                                     K_service)}) > 2
        IN  /\ Len(probe.out[1]) > 0
            /\ "MVC" \in labels <=> mvc
            /\ "Layered" \in labels <=> layered
            /\ "Clean Architecture" \in labels <=> clean
            /\ "Microservices" \in labels <=> micro
            /\ "Unknown" \in labels <=> ~(mvc \/ layered \/ clean \/ micro)
            /\ "Unknown" \in labels => probe.out[1] = << "Unknown" >>

\* MVC and Layered are reported together for a project with the folders
\* models, Views, controllers, services and repositories
C13_Witness ==
    /\ ArchitectureDetected
    /\ probe.out[1] = << "MVC", "Layered" >>
    /\ {A_models, A_views, A_controllers} \subseteq ProbedFolderNames

TypeOfPath(path) ==
    LET i == CHOOSE j \in 1..Len(index[1].files) : index[1].files[j].path = path
    IN  index[1].files[i].type

\* the files a rendered mind map lists
MindmapFiles == {mindmap[1][i].path : i \in {j \in 1..Len(mindmap[1]) : mindmap[1][j].kind = "file"}}

\* C15: with a non-empty typesOnly the mind map lists only files whose type
\* is one of typesOnly, in markdown, mermaid and dot alike.
C15_TypesOnlyFilters ==
    (mindmap # <<>> /\ Len(cmd.typesOnly) > 0) =>
        \A path \in MindmapFiles : TypeOfPath(path) \in SeqRange(cmd.typesOnly)

\* a call of the predicate of filterFiles that has returned
Filtered == probe.op = "filter" /\ probe.out # <<>>

ProbedRelativePath == PathRelative(env.cwd, probe.config.rootPath, probe.path)

\* C16: a path that matches no exclude pattern is included when the include
\* list is empty, and with a non-empty include list only if it matches an
\* include pattern under the rules of exclusion (a segment, a directory or a
\* glob; the pattern src does not match a path that only has "src" inside a
\* segment).
C16_IncludeSemantics ==
    (Filtered /\ ~Ignores(probe.config.exclude, ProbedRelativePath)) =>
        IF Len(probe.config.include) = 0 THEN probe.out[1]
        ELSE probe.out[1] => Ignores(probe.config.include, ProbedRelativePath)

\* the formats generateMindmap has a case for
KnownFormats == {"markdown", "mermaid", "dot"}

\* C17: a render call with an unrecognized format fails with an error for
\* that call: no mind map is rendered as markdown in its place and nothing is
\* written.
C17_UnknownFormatFails ==
    cmd.format \notin KnownFormats =>
        /\ mindmap = <<>>
        /\ written = {}
        /\ pc = "done" => error # ""

\* the files and folders of the flattened lists of the index
IndexedPaths == PathsOf(index[1].files) \cup PathsOf(index[1].folders)

\* the scanned files the filter keeps when there is no .gitignore
KeptWithoutGitignore ==
    {scan[1].files[i].path :
        i \in {j \in 1..Len(scan[1].files) :
                 fileFilter(scan[1].files[j].path, config, config.exclude, env)}}

DependenciesAnalysed == probe.op = "dependencies" /\ probe.out # <<>>

\* every import captured in the analysed files
ProbedImports ==
    UNION {SeqRange(probe.captures[i].imports) : i \in 1..Len(probe.captures)}

\* C19: the external dependencies of the analysis are imports that start
\* with neither '.' nor '/', the internal modules are imports that start with
\* '.' or '/', the two lists share no element and neither has a duplicate.
C19_DependencyPartition ==
    DependenciesAnalysed =>
        LET external == probe.out[1].externalDependencies
            internal == probe.out[1].internalModules
        IN  /\ SeqRange(external) =
                  {imp \in ProbedImports : Head(imp) # "." /\ Head(imp) # "/"}
            /\ SeqRange(internal) =
                  {imp \in ProbedImports : Head(imp) = "." \/ Head(imp) = "/"}
            /\ SeqRange(external) \cap SeqRange(internal) = {}
            /\ Cardinality(SeqRange(external)) = Len(external)
            /\ Cardinality(SeqRange(internal)) = Len(internal)

\* two files that both import os and ./util were analysed
C19_Witness ==
    /\ DependenciesAnalysed
    /\ probe.captures = << [threw |-> FALSE, imports |-> << I_os, I_dotUtil >>],
                           [threw |-> FALSE, imports |-> << I_dotUtil, I_os >>] >>
    /\ probe.out[1].externalDependencies = << I_os >>
    /\ probe.out[1].internalModules = << I_dotUtil >>

\* the relative path, type and complexity of every file of a list, in order
Triples(fileList) ==
    [i \in 1..Len(fileList) |->
        << RelOf(fileList[i].path), fileList[i].type, fileList[i].complexity >>]

SecondRun == probe.op = "twice" /\ probe.out # <<>>

CallsInFlight == IF probe.op = "batched" THEN probe.inFlight ELSE {}

\* C21: the text-generation calls of enhanceProjectIndex and of
\* generateDetailedDocumentation are dispatched in bounded batches: never more
\* than batchSize calls (5, respectively 3) are in flight, and a call is in
\* flight only once every batch before its own has settled and the delay
\* after it has elapsed, that is once the loop of processBatched is at its batch
C21_BoundedBatches ==
    probe.op = "batched" =>
        /\ Cardinality(CallsInFlight) <= probe.batchSize
        /\ \A k \in CallsInFlight : k \in batchAt(probe.i, probe.batchSize, probe.count)

\* ---- C22 ----

\* the ceiling the services name for a batch: the default batchSize of
\* processBatched
ReadCeiling == 5

\* the files whose fs.readFile is in flight
ReadsInFlight ==
    IF probe.op = "enrich"
    THEN {k \in 1..probe.count : probe.phase[k] \in {"read", "analysis"}}
    ELSE {}

\* C22: the content-enrichment pass never has more than a fixed number of
\* file reads in flight, however many files the index contains
C22_ReadCeiling == Cardinality(ReadsInFlight) <= ReadCeiling

\* the reads in flight can be as many as the files: no number below the
\* number of files bounds them
C22_AllInFlight ==
    /\ probe.op = "enrich"
    /\ probe.count = MaxCalls
    /\ Cardinality(ReadsInFlight) = probe.count

\* ---- C23 ----

\* the File scanDirectory made for a path, as it was before enrichment
ScannedFile(path) == CHOOSE f \in SeqRange(scan[1].files) : f.path = path

\* C23: a file whose read fails during the enrichment pass keeps the line
\* count estimate, the complexity and the description it had before the
\* pass, every other file is enriched (its line count is that of its
\* content), and indexProject returns an index.
C23_EnrichmentFailureKeeps ==
    Indexed =>
        \A i \in 1..Len(index[1].files) :
            LET file == index[1].files[i]
                before == ScannedFile(file.path)
            IN  IF Readable(file.path)
                THEN file.lineCount = EntryAt(file.path).content.lines
                ELSE /\ file.lineCount = before.lineCount
                     /\ file.complexity = before.complexity
                     /\ file.description = before.description

\* what holds of the claim: with a failing read the index is returned, the
\* file is listed with the constructor's complexity and description, and the
\* other files are enriched
C23_OthersEnriched ==
    /\ Indexed
    /\ \E i \in 1..Len(index[1].files) :
          /\ ~Readable(index[1].files[i].path)
          /\ index[1].files[i].lineCount = 0
          /\ ScannedFile(index[1].files[i].path).lineCount > 0
    /\ \E i \in 1..Len(index[1].files) :
          /\ Readable(index[1].files[i].path)
          /\ index[1].files[i].lineCount = EntryAt(index[1].files[i].path).content.lines

\* ---- C24 ----

\* C24: in indexProject the structural analysis starts only after the
\* enrichment of every file has settled: while an index exists no enrichment
\* promise is pending, and the step that builds the index is taken with no
\* promise pending, leaves the files as they are and analyses exactly them.
C24_AnalysisAfterEnrichment ==
    /\ [](Indexed => pending = {})
    /\ [][(~Indexed /\ Indexed') =>
             /\ pending = {}
             /\ files' = files
             /\ index'[1].analysis = analyzeProjectStructure(files, folders)]_vars

\* an index built after an enrichment in which one read failed and the
\* others succeeded
C24_Witness ==
    /\ Indexed
    /\ pending = {}
    /\ Detailed
    /\ Len(files) >= 3
    /\ \E i \in 1..Len(files) : ~Readable(files[i].path)
    /\ \E i \in 1..Len(files) : files[i].metadata # <<>>

\* ---- C25 ----

\* 1 + L + K + N + I, clamped: L by the line count (above 200, 500, 1000),
\* K by the count of control-flow keywords (above 10, 20, 50, 100), N by the
\* nesting depth (above 3, 5), I one for each idiom group present
BracketScore(content) ==
    LET l == IF content.lines > 1000 THEN 3
             ELSE IF content.lines > 500 THEN 2
             ELSE IF content.lines > 200 THEN 1 ELSE 0
        count == content.kw["if"]
        k == IF count > 100 THEN 4
             ELSE IF count > 50 THEN 3
             ELSE IF count > 20 THEN 2
             ELSE IF count > 10 THEN 1 ELSE 0
        n == IF content.nest > 5 THEN 2 ELSE IF content.nest > 3 THEN 1 ELSE 0
        i == (IF content.hasAsync THEN 1 ELSE 0)
             + (IF content.hasPromise THEN 1 ELSE 0)
             + (IF content.hasRegex THEN 1 ELSE 0)
    IN  Clamp(1 + l + k + n + i)

Scored == probe.op = "complexity" /\ probe.out # <<>>

\* C25: the complexity score of a file is clamp(1 + L + K + N + I, 1, 10)
\* with the brackets above, on the basic and on the detailed scoring path.
C25_ComplexityFormula == Scored => probe.out[1] = BracketScore(probe.content)

\* what holds of the claim: the detailed score of a python file
C25_DetailedPython ==
    Scored /\ probe.detailed /\ probe.language = "python" =>
        probe.out[1] = BracketScore(probe.content)

\* ---- C26 ----

Walked == probe.op = "walk" /\ probe.out # <<>>

\* the depth of a directory of the project: the root is at depth 0
DepthOf(dirPath) == Len(Segments(dirPath)) - Len(Segments(D_root))

\* a path below a directory
IsBelow(path, dirPath) == StartsWith(path, dirPath \o << "/" >>)

\* C26: scanDirectory records no folder deeper than maxDepth; a folder at
\* depth maxDepth is recorded but not expanded, so nothing below it is
\* recorded; every directory of the project down to that depth is recorded
\* with its depth.
C26_DepthLimit ==
    Walked =>
        LET result == probe.out[1]
            recorded == PathsOf(result.files) \cup PathsOf(result.folders)
        IN  /\ \A i \in 1..Len(result.folders) :
                  LET folder == result.folders[i]
                  IN  /\ folder.depth <= probe.maxDepth
                      /\ folder.depth = DepthOf(folder.path)
                      /\ folder.depth = probe.maxDepth =>
                            /\ folder.files = <<>>
                            /\ folder.subfolders = <<>>
                            /\ \A p \in recorded : ~IsBelow(p, folder.path)
            /\ \A d \in DirPaths : DepthOf(d) <= probe.maxDepth => d \in PathsOf(result.folders)

\* a walk with maxDepth 2: src/models is recorded, its file User.js is not,
\* and the file big.py of src is
C26_Witness ==
    /\ Walked
    /\ probe.maxDepth = 2
    /\ D_models \in PathsOf(probe.out[1].folders)
    /\ PathJoin(D_models, S_UserJs) \notin PathsOf(probe.out[1].files)
    /\ PathJoin(D_src, S_bigPy) \in PathsOf(probe.out[1].files)

\* ---- C27 ----

\* the paths of the entries of a directory in the order of its listing
ListingPaths(dirPath) ==
    LET entries == ReadDir(dirPath)
    IN  [i \in 1..Len(entries) |-> EntryPath(entries[i])]

\* the paths of a list of File or Folder objects, in the order of the list
PathList(q) == [i \in 1..Len(q) |-> q[i].path]

\* C27: the walker takes the entries of a directory one after the other in
\* the order of the listing: each folder's files and subfolders are the
\* recorded entries of its listing in listing order, and the files of one
\* directory stand in that order in the list of all files.
C27_ListingOrder ==
    Walked =>
        LET result == probe.out[1]
        IN  \A i \in 1..Len(result.folders) :
                LET folder == result.folders[i]
                    listing == ListingPaths(folder.path)
                IN  /\ folder.files =
                         SelectSeq(listing, LAMBDA p : p \in PathsOf(result.files))
                    /\ folder.subfolders =
                         SelectSeq(listing, LAMBDA p : p \in PathsOf(result.folders))
                    /\ folder.files =
                         SelectSeq(PathList(result.files),
                                   LAMBDA p : p \in SeqRange(folder.files))

\* a walk that recorded two files and two subfolders of the root, whose
\* listing has src before node_modules
C27_Witness ==
    /\ Walked
    /\ probe.out[1].folders[1].files =
           << PathJoin(D_root, S_README), PathJoin(D_root, S_appJs) >>
    /\ probe.out[1].folders[1].subfolders = << D_src, D_nm >>

\* ---- C28 ----

\* C28: in every index indexProject returns, metadata.totalFiles is the
\* length of the files list, metadata.totalSize the sum of the files' sizes,
\* the fileTypes counts sum to totalFiles, the complexity distribution over
\* the levels 1..10 sums to totalFiles, and min <= average <= max.
C28_MetadataConsistent ==
    Indexed =>
        LET metadata == index[1].metadata
            overall == metadata.complexity
        IN  /\ metadata.totalFiles = Len(index[1].files)
            /\ metadata.totalSize = SumSizes(index[1].files)
            /\ SumOver(metadata.fileTypes, DOMAIN metadata.fileTypes) = metadata.totalFiles
            /\ \A type \in DOMAIN metadata.fileTypes :
                  metadata.fileTypes[type] =
                      Cardinality({i \in 1..Len(index[1].files) :
                                     index[1].files[i].type = type})
            /\ SumOver(overall.distribution, DOMAIN overall.distribution)
                   = metadata.totalFiles
            /\ metadata.totalFiles > 0 => DOMAIN overall.distribution = 1..10
            /\ 100 * overall.min <= overall.average100
            /\ overall.average100 <= 100 * overall.max

\* an index with two files of one type, files of other types, and files of
\* different complexity
C28_Witness ==
    /\ Indexed
    /\ \E type \in DOMAIN index[1].metadata.fileTypes : index[1].metadata.fileTypes[type] >= 2
    /\ Cardinality(DOMAIN index[1].metadata.fileTypes) >= 2
    /\ index[1].metadata.complexity.min < index[1].metadata.complexity.max
    /\ index[1].metadata.totalSize > 0

\* ---- C29 ----

SplitDone == probe.op = "split" /\ probe.out # <<>>

\* the lines of a part that open a block: those the split pattern matches
BlockStarts(part) == {i \in 1..Len(part) : part[i].mark = "## "}

\* a part that is one block: the title block, or one section from its heading
OneBlock(part) == BlockStarts(part) \subseteq {1}

\* C29: every part splitDocumentation returns whose byte length exceeds
\* maxSize is exactly one block, the title block or a single top-level
\* section; parts that pack two or more blocks are within the budget.  The
\* parts in order are the document.
C29_OverBudgetSingleBlock ==
    SplitDone =>
        LET parts == probe.out[1]
        IN  /\ \A k \in 1..Len(parts) :
                  byteLength(parts[k]) > probe.maxSize => OneBlock(parts[k])
            /\ Flatten(parts) = probe.content

\* a split into a part over budget and a part that packs two blocks
C29_Witness ==
    /\ SplitDone
    /\ \E k \in 1..Len(probe.out[1]) : byteLength(probe.out[1][k]) > probe.maxSize
    /\ \E k \in 1..Len(probe.out[1]) : ~OneBlock(probe.out[1][k])

\* ---- C30 ----

Rooted == probe.op = "roots" /\ probe.out # <<>>

\* C30: the type of a file, and whether it counts as a test file, depend
\* only on its root-relative path and name: the same tree placed under two
\* root directories gets the same types and the same test and source counts.
C30_RootIndependent ==
    Rooted => \A a \in Roots, b \in Roots : probe.out[1][a] = probe.out[1][b]

\* what holds of the claim: roots whose path contains none of the words the
\* classifier looks for in a path give the same result, and a root named
\* config gives the same types as they do
C30_NeutralRoots ==
    Rooted =>
        /\ probe.out[1][S_p] = probe.out[1][S_w]
        /\ probe.out[1][R_config].types = probe.out[1][S_p].types

====
